---- MODULE Spec2Model ----
(***************************************************************************)
(* PatchParser of git-patch-viewer (src/js/urlHandler.js, lines 303-687). *)
(*                                                                         *)
(* Texts are TLA+ strings and every string operation of the source         *)
(* (startsWith, substring, split, trim, the regular expressions) is        *)
(* computed character by character.  Objects live in two heaps (fileObjs,  *)
(* hunkObjs) and are named by their index, because parseFiles keeps        *)
(* references: the same file or hunk object can be pushed more than once.  *)
(***************************************************************************)
EXTENDS Integers, Sequences, FiniteSets, TLC

VARIABLES
    patchText,    \* the argument of the running call of parse
    pc,           \* "call" | "scan" | "done" | "threw"
    lines,        \* parse: const lines = patchText.split('\n')
    metadata,     \* parse: result.metadata
    i,            \* parseFiles: let i
    files,        \* parseFiles: const files (references into fileObjs)
    currentFile,  \* parseFiles: let currentFile (reference or NULL)
    currentHunk,  \* parseFiles: let currentHunk (reference or NULL)
    fileObjs,     \* the file objects allocated by this call
    hunkObjs,     \* the hunk objects allocated by this call
    result,       \* the value parse returned (NULL until it returns)
    called,       \* history: the arguments of the calls of parse so far
    returned,     \* history: input |-> result of the first call on that input
    clock,        \* the time new Date() and Date.now() read
    storage,      \* StorageManager: the array kept in localStorage
    nextId,       \* StorageManager: the number of ids generateID has given out
    currentPatch, \* Viewer: let currentPatch (a parsed patch or null)
    currentSavedPatchId, \* Viewer: let currentSavedPatchId (an id or null)
    savePrompt,   \* Viewer: a 'Would you like to save this patch?' toast is shown
    existsModal   \* Viewer: the patch-exists modal's pending choice, or null

vars == <<patchText, pc, lines, metadata, i, files, currentFile, currentHunk,
          fileObjs, hunkObjs, result, called, returned, clock, storage, nextId,
          currentPatch, currentSavedPatchId, savePrompt, existsModal>>

\* the variables of the parser and of the calls of its functions
parser == <<patchText, pc, lines, metadata, i, files, currentFile, currentHunk,
            fileObjs, hunkObjs, result, called, returned>>

\* the variables of the page: the clock, the storage and the viewer
page == <<clock, storage, nextId, currentPatch, currentSavedPatchId, savePrompt,
          existsModal>>

\* the null reference; object references are heap indexes from 1
NULL == 0

-----------------------------------------------------------------------------
(* JavaScript values and string primitives                                  *)

Str(s) == [kind |-> "string", text |-> s]
Null == [kind |-> "null"]
Undefined == [kind |-> "undefined"]
Num(n) == [kind |-> "number", num |-> n]

\* typeof v === 'string'
IsString(v) == v.kind = "string"

\* !v : null, undefined, the empty string and 0 are falsy
Falsy(v) ==
    \/ v.kind \in {"null", "undefined"}
    \/ v.kind = "string" /\ v.text = ""
    \/ v.kind = "number" /\ v.num = 0

\* s.charAt(k - 1): the empty string outside the string
charAt(s, k) == IF 1 <= k /\ k <= Len(s) THEN SubSeq(s, k, k) ELSE ""

\* s.startsWith(p)
startsWith(s, p) == Len(s) >= Len(p) /\ SubSeq(s, 1, Len(p)) = p

\* s.substring(k), k counted from 0
substring(s, k) == SubSeq(s, k + 1, Len(s))

\* true iff p occurs in s starting at (1-based) position k
occursAt(s, p, k) == k >= 1 /\ k + Len(p) - 1 <= Len(s) /\ SubSeq(s, k, k + Len(p) - 1) = p

\* the white space String.prototype.trim and \s take off, within ASCII
WhiteSpace == {" ", "\t", "\n", "\r", "\f"}

Min(S) == CHOOSE x \in S : \A y \in S : x <= y
Max(S) == CHOOSE x \in S : \A y \in S : x >= y

\* the end (exclusive) of the longest run of characters of class C starting at k
runEnd(s, k, C) == Min({j \in k..(Len(s) + 1) : charAt(s, j) \notin C})

\* the start of the longest run of characters of class C ending at k
runStart(s, k, C) == Max({j \in 0..k : charAt(s, j) \notin C}) + 1

\* s.trim()
trim(s) ==
    LET from == runEnd(s, 1, WhiteSpace)
    IN  IF from > Len(s) THEN "" ELSE SubSeq(s, from, runStart(s, Len(s), WhiteSpace) - 1)

\* the position of the first sep in s from position start on, or Len(s) + 1
nextSep(s, sep, start) == Min({k \in start..(Len(s) + 1) : k > Len(s) \/ charAt(s, k) = sep})

RECURSIVE splitFrom(_, _, _)
splitFrom(s, sep, start) ==
    IF nextSep(s, sep, start) > Len(s) THEN <<SubSeq(s, start, Len(s))>>
    ELSE <<SubSeq(s, start, nextSep(s, sep, start) - 1)>>
         \o splitFrom(s, sep, nextSep(s, sep, start) + 1)

\* s.split(sep) for a one-character separator
split(s, sep) == splitFrom(s, sep, 1)

Digits == {"0", "1", "2", "3", "4", "5", "6", "7", "8", "9"}

DigitValue(c) ==
    CASE c = "0" -> 0 [] c = "1" -> 1 [] c = "2" -> 2 [] c = "3" -> 3 [] c = "4" -> 4
      [] c = "5" -> 5 [] c = "6" -> 6 [] c = "7" -> 7 [] c = "8" -> 8 [] c = "9" -> 9

RECURSIVE parseIntFrom(_, _)
parseIntFrom(s, acc) ==
    IF Len(s) = 0 THEN acc
    ELSE parseIntFrom(substring(s, 1), 10 * acc + DigitValue(charAt(s, 1)))

\* parseInt(s) for a non-empty string of decimal digits
parseInt(s) == parseIntFrom(s, 0)

\* the regular expression '.' : any character but a line terminator
IsDot(c) == c \notin {"\n", "\r"}

\* the end (exclusive) of the longest run of '.' characters starting at k
dotEnd(s, k) == Min({j \in k..(Len(s) + 1) : j > Len(s) \/ ~IsDot(charAt(s, j))})

NoMatch == [found |-> FALSE]

-----------------------------------------------------------------------------
(* The regular expressions of parseFiles                                    *)

\* the lengths k >= 1 the lazy group (.+?) may take from position a, so that
\* " b/" and at least one more character follow
lazyLens(line, a) ==
    {k \in 1..Len(line) :
        /\ \A j \in a..(a + k - 1) : IsDot(charAt(line, j))
        /\ occursAt(line, " b/", a + k)
        /\ a + k + 3 <= Len(line)
        /\ IsDot(charAt(line, a + k + 3))}

\* line.match(/diff --git a\/(.+?) b\/(.+)/): the leftmost start, then the
\* shortest first group, then the longest second group
matchDiffGit(line) ==
    LET P == "diff --git a/"
        starts == {p \in 1..Len(line) :
                      occursAt(line, P, p) /\ lazyLens(line, p + Len(P)) # {}}
    IN  IF starts = {} THEN NoMatch
        ELSE LET a == Min(starts) + Len(P)
                 k == Min(lazyLens(line, a))
                 b == a + k + 3
             IN  [found |-> TRUE,
                  g1 |-> SubSeq(line, a, a + k - 1),
                  g2 |-> SubSeq(line, b, dotEnd(line, b) - 1)]

\* /@@ -(\d+),?(\d*) \+(\d+),?(\d*) @@(.*)/ tried at start position p.  Every
\* quantifier is greedy and each is followed by a character outside its class,
\* so the first match the backtracking finds is the longest-run one.
matchHunkAt(line, p) ==
    LET a1 == p + 4
        e1 == runEnd(line, a1, Digits)
        c1 == IF charAt(line, e1) = "," THEN e1 + 1 ELSE e1
        e2 == runEnd(line, c1, Digits)
        a3 == e2 + 2
        e3 == runEnd(line, a3, Digits)
        c3 == IF charAt(line, e3) = "," THEN e3 + 1 ELSE e3
        e4 == runEnd(line, c3, Digits)
        h  == e4 + 3
    IN  IF /\ occursAt(line, "@@ -", p)
           /\ e1 > a1
           /\ occursAt(line, " +", e2)
           /\ e3 > a3
           /\ occursAt(line, " @@", e4)
        THEN [found |-> TRUE,
              g1 |-> SubSeq(line, a1, e1 - 1),
              g2 |-> SubSeq(line, c1, e2 - 1),
              g3 |-> SubSeq(line, a3, e3 - 1),
              g4 |-> SubSeq(line, c3, e4 - 1),
              g5 |-> SubSeq(line, h, dotEnd(line, h) - 1)]
        ELSE NoMatch

\* line.match(/@@ -(\d+),?(\d*) \+(\d+),?(\d*) @@(.*)/): the leftmost start
matchHunkHeader(line) ==
    LET starts == {p \in 1..Len(line) : matchHunkAt(line, p).found}
    IN  IF starts = {} THEN NoMatch ELSE matchHunkAt(line, Min(starts))

\* line.match(/^Binary files .* differ/)
matchBinary(line) ==
    LET P == "Binary files "
    IN  /\ startsWith(line, P)
        /\ \E j \in (Len(P) + 1)..Len(line) :
              /\ occursAt(line, " differ", j)
              /\ \A k \in (Len(P) + 1)..(j - 1) : IsDot(charAt(line, k))

-----------------------------------------------------------------------------
(* parseFiles: the locals of one call, as a record                          *)
(*   [files, currentFile, currentHunk, fileObjs, hunkObjs, threw]           *)
(* threw becomes TRUE when a property of a null reference is read or        *)
(* written (a TypeError), and the scan stops there.                         *)

\* the object literal of lines 438-446
newFile(m) ==
    [oldPath |-> m.g1, newPath |-> m.g2, type |-> "modified", hunks |-> <<>>,
     additions |-> 0, deletions |-> 0, isBinary |-> FALSE]

\* newHunk taking a count of 0 for a missing count (parseInt(...) || 1)
newHunk_ZeroIsMissing(m) ==
    [oldStart |-> parseInt(m.g1),
     oldLines |-> IF m.g2 # "" /\ parseInt(m.g2) # 0 THEN parseInt(m.g2) ELSE 1,
     newStart |-> parseInt(m.g3),
     newLines |-> IF m.g4 # "" /\ parseInt(m.g4) # 0 THEN parseInt(m.g4) ELSE 1,
     heading  |-> trim(m.g5),
     lines    |-> <<>>]

\* the object literal of lines 482-489
newHunk(m) ==
    [oldStart |-> parseInt(m.g1),
     oldLines |-> IF m.g2 # "" THEN parseInt(m.g2) ELSE 1,
     newStart |-> parseInt(m.g3),
     newLines |-> IF m.g4 # "" THEN parseInt(m.g4) ELSE 1,
     heading  |-> trim(m.g5),
     lines    |-> <<>>]

TypeError(s) == [s EXCEPT !.threw = TRUE]

\* currentFile.hunks.push(currentHunk)
pushHunk(s) ==
    IF s.currentFile = NULL THEN TypeError(s)
    ELSE [s EXCEPT !.fileObjs[s.currentFile].hunks = Append(@, s.currentHunk)]

\* files.push(currentFile)
pushFile(s) == [s EXCEPT !.files = Append(@, s.currentFile)]

\* currentFile.<field> = value
setFile(s, field, value) ==
    IF s.currentFile = NULL THEN TypeError(s)
    ELSE [s EXCEPT !.fileObjs[s.currentFile][field] = value]

\* currentFile.<counter>++
incFile(s, field) ==
    IF s.currentFile = NULL THEN TypeError(s)
    ELSE [s EXCEPT !.fileObjs[s.currentFile][field] = @ + 1]

\* currentHunk.lines.push({ type, content })
pushLine(s, type, content) ==
    IF s.currentHunk = NULL THEN TypeError(s)
    ELSE [s EXCEPT !.hunkObjs[s.currentHunk].lines =
                        Append(@, [type |-> type, content |-> content])]

\* currentFile.isBinary, read
fileIsBinary(s) == s.currentFile # NULL /\ s.fileObjs[s.currentFile].isBinary

\* currentHunk.lines.length, read
hunkLength(s) == IF s.currentHunk = NULL THEN 0 ELSE Len(s.hunkObjs[s.currentHunk].lines)

\* FileHeader replacing the current file without saving it
FileHeader_NoSave(s, line) ==
    IF ~startsWith(line, "diff --git ") THEN s
    ELSE LET m == matchDiffGit(line)
         IN  IF m.found
             THEN [s EXCEPT !.fileObjs = Append(@, newFile(m)),
                            !.currentFile = Len(s.fileObjs) + 1,
                            !.currentHunk = NULL]
             ELSE s

\* lines 424-448: file header (diff --git)
FileHeader(s, line) ==
    IF ~startsWith(line, "diff --git ") THEN s
    ELSE LET saved ==
                 IF s.currentFile # NULL
                 THEN pushFile(IF s.currentHunk # NULL
                               THEN [pushHunk(s) EXCEPT !.currentHunk = NULL]
                               ELSE s)
                 ELSE s
             m == matchDiffGit(line)
         IN  IF m.found
             THEN [saved EXCEPT !.fileObjs = Append(@, newFile(m)),
                                !.currentFile = Len(saved.fileObjs) + 1]
             ELSE saved

\* NewFileMode writing the sentinel to the wrong path
NewFileMode_NewPath(s, line) ==
    IF startsWith(line, "new file mode") /\ s.currentFile # NULL
    THEN setFile(setFile(s, "type", "added"), "newPath", "/dev/null")
    ELSE s

\* lines 450-454: new file mode
NewFileMode(s, line) ==
    IF startsWith(line, "new file mode") /\ s.currentFile # NULL
    THEN setFile(setFile(s, "type", "added"), "oldPath", "/dev/null")
    ELSE s

\* DeletedFileMode without the test that a file is current
DeletedFileMode_NoFileGuard(s, line) ==
    IF startsWith(line, "deleted file mode")
    THEN setFile(setFile(s, "type", "deleted"), "newPath", "/dev/null")
    ELSE s

\* lines 456-460: deleted file mode
DeletedFileMode(s, line) ==
    IF startsWith(line, "deleted file mode") /\ s.currentFile # NULL
    THEN setFile(setFile(s, "type", "deleted"), "newPath", "/dev/null")
    ELSE s

\* RenamedFile taking 'renamed' as a type of lower rank than added and deleted
RenamedFile_IfModified(s, line) ==
    IF /\ startsWith(line, "rename from") /\ s.currentFile # NULL
       /\ s.fileObjs[s.currentFile].type = "modified"
    THEN setFile(s, "type", "renamed")
    ELSE s

\* lines 462-465: renamed file
RenamedFile(s, line) ==
    IF startsWith(line, "rename from") /\ s.currentFile # NULL
    THEN setFile(s, "type", "renamed")
    ELSE s

\* lines 467-470: binary files
BinaryFiles(s, line) ==
    IF matchBinary(line) /\ s.currentFile # NULL
    THEN setFile(s, "isBinary", TRUE)
    ELSE s

\* HunkHeader without the test that a file is current
HunkHeader_NoFileGuard(s, line) ==
    IF startsWith(line, "@@")
    THEN LET saved == IF s.currentHunk # NULL THEN pushHunk(s) ELSE s
             m == matchHunkHeader(line)
         IN  IF m.found
             THEN [saved EXCEPT !.hunkObjs = Append(@, newHunk(m)),
                                !.currentHunk = Len(saved.hunkObjs) + 1]
             ELSE saved
    ELSE s

\* lines 472-491: hunk header
HunkHeader(s, line) ==
    IF startsWith(line, "@@") /\ s.currentFile # NULL
    THEN LET saved == IF s.currentHunk # NULL THEN pushHunk(s) ELSE s
             m == matchHunkHeader(line)
         IN  IF m.found
             THEN [saved EXCEPT !.hunkObjs = Append(@, newHunk(m)),
                                !.currentHunk = Len(saved.hunkObjs) + 1]
             ELSE saved
    ELSE s

\* HunkContent taking every space line as context, the first of a hunk too
HunkContent_AnyContext(s, line) ==
    IF s.currentHunk # NULL /\ s.currentFile # NULL /\ ~fileIsBinary(s)
    THEN IF startsWith(line, "+") /\ ~startsWith(line, "+++")
         THEN incFile(pushLine(s, "add", substring(line, 1)), "additions")
         ELSE IF startsWith(line, "-") /\ ~startsWith(line, "---")
         THEN incFile(pushLine(s, "del", substring(line, 1)), "deletions")
         ELSE IF startsWith(line, " ")
         THEN pushLine(s, "context", substring(line, 1))
         ELSE s
    ELSE s

\* lines 493-504: hunk content lines
HunkContent(s, line) ==
    IF s.currentHunk # NULL /\ s.currentFile # NULL /\ ~fileIsBinary(s)
    THEN IF startsWith(line, "+") /\ ~startsWith(line, "+++")
         THEN incFile(pushLine(s, "add", substring(line, 1)), "additions")
         ELSE IF startsWith(line, "-") /\ ~startsWith(line, "---")
         THEN incFile(pushLine(s, "del", substring(line, 1)), "deletions")
         ELSE IF startsWith(line, " ") /\ hunkLength(s) > 0
         THEN pushLine(s, "context", substring(line, 1))
         ELSE s
    ELSE s

\* the k-th statement of the loop body (lines 424-504)
Statement(k, s, line) ==
    CASE k = 1 -> FileHeader(s, line)
      [] k = 2 -> NewFileMode(s, line)
      [] k = 3 -> DeletedFileMode(s, line)
      [] k = 4 -> RenamedFile(s, line)
      [] k = 5 -> BinaryFiles(s, line)
      [] k = 6 -> HunkHeader(s, line)
      [] k = 7 -> HunkContent(s, line)

\* the statements from the k-th on, in order; none is run once one has thrown
RECURSIVE runFrom(_, _, _)
runFrom(k, s, line) ==
    IF k > 7 \/ s.threw THEN s ELSE runFrom(k + 1, Statement(k, s, line), line)

\* lines 422-504: the body of the while loop for one line
LoopBody(s, line) == runFrom(1, s, line)

\* lines 509-515: save last file
SaveLastFile(s) ==
    IF s.currentFile # NULL
    THEN pushFile(IF s.currentHunk # NULL THEN pushHunk(s) ELSE s)
    ELSE s

\* the value of a file reference: the object with its hunks
fileValue(fo, ho, f) ==
    [fo[f] EXCEPT !.hunks = [k \in 1..Len(fo[f].hunks) |-> ho[fo[f].hunks[k]]]]

\* the array parseFiles returns, as a value
filesValue(s) == [k \in 1..Len(s.files) |-> fileValue(s.fileObjs, s.hunkObjs, s.files[k])]

RECURSIVE sumOf(_, _)
sumOf(fs, field) ==
    IF Len(fs) = 0 THEN 0 ELSE fs[1][field] + sumOf(Tail(fs), field)

\* calculateStats with the deletions summed into additions
calculateStats_OneCounter(fs) ==
    [filesChanged |-> Len(fs),
     additions    |-> sumOf(fs, "additions") + sumOf(fs, "deletions"),
     deletions    |-> 0]

\* lines 525-538
calculateStats(fs) ==
    [filesChanged |-> Len(fs),
     additions    |-> sumOf(fs, "additions"),
     deletions    |-> sumOf(fs, "deletions")]

-----------------------------------------------------------------------------
(* extractMetadata (lines 340-408)                                          *)

\* the number of leading lines extractMetadata examines (line 353)
MetadataWindow == 50

HexDigits == Digits \cup {"a", "b", "c", "d", "e", "f"}

\* line.match(/^From ([0-9a-f]{40})/)
matchCommitHash(line) ==
    IF /\ startsWith(line, "From ")
       /\ Len(line) >= 45
       /\ \A k \in 6..45 : charAt(line, k) \in HexDigits
    THEN [found |-> TRUE, g1 |-> SubSeq(line, 6, 45)]
    ELSE NoMatch

\* the lengths the lazy group may take from position a so that c follows it
lazyUntil(line, a, c) ==
    {k \in 1..Len(line) :
        /\ \A j \in a..(a + k - 1) : IsDot(charAt(line, j))
        /\ occursAt(line, c, a + k)}

\* line.match(/^From: (.+?) <(.+?)>/)
matchAuthor(line) ==
    LET a  == 7
        k1s == {k \in lazyUntil(line, a, " <") : lazyUntil(line, a + k + 2, ">") # {}}
    IN  IF startsWith(line, "From: ") /\ k1s # {}
        THEN LET k1 == Min(k1s)
                 b  == a + k1 + 2
                 k2 == Min(lazyUntil(line, b, ">"))
             IN  [found |-> TRUE,
                  g1 |-> SubSeq(line, a, a + k1 - 1),
                  g2 |-> SubSeq(line, b, b + k2 - 1)]
        ELSE NoMatch

\* line.match(/^\s*\(.*\)$/)
matchRefsLine(line) ==
    LET o == runEnd(line, 1, WhiteSpace)
    IN  /\ charAt(line, o) = "("
        /\ Len(line) > o
        /\ charAt(line, Len(line)) = ")"
        /\ \A k \in (o + 1)..(Len(line) - 1) : IsDot(charAt(line, k))

\* the end (exclusive) of the longest run of characters other than c from k
runUntil(s, k, c) == nextSep(s, c, k)

\* line.match(/\(([^)]+)\)/)
matchRefs(line) ==
    LET starts == {p \in 1..Len(line) :
                      /\ charAt(line, p) = "("
                      /\ runUntil(line, p + 1, ")") > p + 1
                      /\ runUntil(line, p + 1, ")") <= Len(line)}
    IN  IF starts = {} THEN NoMatch
        ELSE LET p == Min(starts)
             IN  [found |-> TRUE, g1 |-> SubSeq(line, p + 1, runUntil(line, p + 1, ")") - 1)]

\* refs[1].split(',').map(r => r.trim())
splitRefs(g) == LET parts == split(g, ",") IN [k \in 1..Len(parts) |-> trim(parts[k])]

RECURSIVE join(_, _)
\* array.join(sep)
join(arr, sep) ==
    IF Len(arr) = 0 THEN ""
    ELSE IF Len(arr) = 1 THEN arr[1]
    ELSE arr[1] \o sep \o join(Tail(arr), sep)

\* lines 341-351: the metadata object and the two loop locals
newMetadata ==
    [commitHash |-> Null, author |-> Null, authorEmail |-> Null, date |-> Null,
     message |-> "", refs |-> <<>>, inMessage |-> FALSE, messageLines |-> <<>>]

\* lines 356-362
MetaCommitHash(m, line) ==
    IF startsWith(line, "From ") /\ matchCommitHash(line).found
    THEN [m EXCEPT !.commitHash = Str(matchCommitHash(line).g1)]
    ELSE m

\* lines 364-373
MetaAuthor(m, line) ==
    IF startsWith(line, "From: ")
    THEN IF matchAuthor(line).found
         THEN [m EXCEPT !.author = Str(matchAuthor(line).g1),
                        !.authorEmail = Str(matchAuthor(line).g2)]
         ELSE [m EXCEPT !.author = Str(trim(substring(line, 6)))]
    ELSE m

\* lines 375-378
MetaDate(m, line) ==
    IF startsWith(line, "Date: ")
    THEN [m EXCEPT !.date = Str(trim(substring(line, 6)))]
    ELSE m

\* lines 387-394
MetaContinue(m, line) ==
    IF m.inMessage
    THEN IF trim(line) = "" \/ startsWith(line, "---")
         THEN [m EXCEPT !.inMessage = FALSE]
         ELSE [m EXCEPT !.messageLines = Append(@, trim(line))]
    ELSE m

\* MetaRefs adding the names of a line to those of the lines before it
MetaRefs_Accumulate(m, line) ==
    IF matchRefsLine(line) /\ matchRefs(line).found
    THEN [m EXCEPT !.refs = @ \o splitRefs(matchRefs(line).g1)]
    ELSE m

\* lines 396-402
MetaRefs(m, line) ==
    IF matchRefsLine(line) /\ matchRefs(line).found
    THEN [m EXCEPT !.refs = splitRefs(matchRefs(line).g1)]
    ELSE m

\* lines 354-402: the body of the for loop; a Subject line ends it early
\* (continue, line 384)
MetaLoopBody(m, line) ==
    LET m3 == MetaDate(MetaAuthor(MetaCommitHash(m, line), line), line)
    IN  IF startsWith(line, "Subject: ")
        THEN [m3 EXCEPT !.inMessage = TRUE,
                        !.messageLines = Append(@, trim(substring(line, 9)))]
        ELSE MetaRefs(MetaContinue(m3, line), line)

RECURSIVE metaLoop(_, _, _, _)
\* lines 353-403: the iterations from the k-th on; the metadata after an
\* iteration is a value before the next iteration starts
metaLoop(m, ls, k, n) ==
    IF k > n THEN m
    ELSE CHOOSE r \in {metaLoop(after, ls, k + 1, n) : after \in {MetaLoopBody(m, ls[k])}} : TRUE

\* extractMetadata examining every line
extractMetadata_Unbounded(ls) ==
    LET m == metaLoop(newMetadata, ls, 1, Len(ls))
    IN  [commitHash  |-> m.commitHash,
         author      |-> m.author,
         authorEmail |-> m.authorEmail,
         date        |-> m.date,
         message     |-> trim(join(m.messageLines, " ")),
         refs        |-> m.refs]

extractMetadata(ls) ==
    LET n == IF Len(ls) < MetadataWindow THEN Len(ls) ELSE MetadataWindow
        m == metaLoop(newMetadata, ls, 1, n)
    IN  [commitHash  |-> m.commitHash,
         author      |-> m.author,
         authorEmail |-> m.authorEmail,
         date        |-> m.date,
         message     |-> trim(join(m.messageLines, " ")),
         refs        |-> m.refs]

-----------------------------------------------------------------------------
(* isValidPatch (lines 665-677)                                             *)

\* the line terminators after which ^ matches under the m flag, within ASCII
LineTerminators == {"\n", "\r"}

\* the positions where ^ matches under the m flag
lineStarts(s) == {1} \cup {k + 1 : k \in {j \in 1..Len(s) : charAt(s, j) \in LineTerminators}}

\* /^p/m.test(s) for a literal p
testMultiline(s, p) == \E k \in lineStarts(s) : occursAt(s, p, k)

\* /^p/.test(s) for a literal p
testAnchored(s, p) == occursAt(s, p, 1)

\* lines 669-674: the literals of the four patterns
indicators == <<"diff --git", "--- ", "+++ ", "@@ ">>

\* isValidPatch with patterns that lack the m flag
isValidPatch_NoMultiline(v) ==
    IF Falsy(v) \/ ~IsString(v) THEN FALSE
    ELSE \E k \in 1..Len(indicators) : testAnchored(v.text, indicators[k])

\* lines 665-677
isValidPatch(v) ==
    IF Falsy(v) \/ ~IsString(v) THEN FALSE
    ELSE \E k \in 1..Len(indicators) : testMultiline(v.text, indicators[k])

-----------------------------------------------------------------------------
(* parse (lines 309-333), one call at a time                                *)

NoResult == [kind |-> "none"]
Thrown(msg) == [kind |-> "error", message |-> msg]

\* the locals of parseFiles, read from the state
Locals ==
    [files |-> files, currentFile |-> currentFile, currentHunk |-> currentHunk,
     fileObjs |-> fileObjs, hunkObjs |-> hunkObjs, threw |-> FALSE]

\* the files array and the objects kept from one call to the next
FreshLocals_Shared ==
    [files |-> files, currentFile |-> NULL, currentHunk |-> NULL,
     fileObjs |-> fileObjs, hunkObjs |-> hunkObjs, threw |-> FALSE]

\* lines 416-419: the locals parseFiles starts from
FreshLocals ==
    [files |-> <<>>, currentFile |-> NULL, currentHunk |-> NULL,
     fileObjs |-> <<>>, hunkObjs |-> <<>>, threw |-> FALSE]

SetLocals(s) ==
    /\ files' = s.files
    /\ currentFile' = s.currentFile
    /\ currentHunk' = s.currentHunk
    /\ fileObjs' = s.fileObjs
    /\ hunkObjs' = s.hunkObjs

\* lines 310-327 and 416-419: the argument check, the split, the metadata,
\* and the entry of parseFiles
Parse ==
    /\ pc = "call"
    /\ IF Falsy(patchText) \/ ~IsString(patchText)
       THEN /\ pc' = "threw"
            /\ result' = Thrown("Invalid patch: empty or not a string")
            /\ UNCHANGED <<lines, metadata, i, files, currentFile, currentHunk,
                           fileObjs, hunkObjs>>
       ELSE /\ lines' = split(patchText.text, "\n")
            /\ metadata' = extractMetadata(lines')
            /\ SetLocals(FreshLocals)
            /\ i' = 0
            /\ pc' = "scan"
            /\ UNCHANGED result
    /\ UNCHANGED <<patchText, called, returned>>
    /\ UNCHANGED page

\* lines 421-507: one iteration of the while loop
ScanLine ==
    /\ pc = "scan"
    /\ i < Len(lines)
    /\ LET s == LoopBody(Locals, lines[i + 1])
       IN  IF s.threw
           THEN /\ pc' = "threw"
                /\ result' = Thrown("TypeError")
                /\ UNCHANGED <<i, files, currentFile, currentHunk, fileObjs, hunkObjs>>
           ELSE /\ SetLocals(s)
                /\ i' = i + 1
                /\ UNCHANGED <<pc, result>>
    /\ UNCHANGED <<patchText, lines, metadata, called, returned>>
    /\ UNCHANGED page

\* lines 509-517 and 329-332: the loop is over; save the last file, compute
\* the statistics and return
Return ==
    /\ pc = "scan"
    /\ i >= Len(lines)
    /\ LET s == SaveLastFile(Locals)
       IN  IF s.threw
           THEN /\ pc' = "threw"
                /\ result' = Thrown("TypeError")
                /\ UNCHANGED <<files, currentFile, currentHunk, fileObjs, hunkObjs,
                               returned>>
           ELSE /\ SetLocals(s)
                /\ result' = [kind     |-> "object",
                              metadata |-> metadata,
                              files    |-> filesValue(s),
                              stats    |-> calculateStats(filesValue(s)),
                              raw      |-> patchText.text]
                /\ pc' = "done"
                /\ returned' = IF patchText \in DOMAIN returned THEN returned
                               ELSE returned @@ (patchText :> result')
    /\ UNCHANGED <<patchText, lines, metadata, i, called>>
    /\ UNCHANGED page

\* the caller calls parse again, on any text
CallAgain(input, maxCalls) ==
    /\ pc \in {"done", "threw"}
    /\ Len(called) < maxCalls
    /\ patchText' = input
    /\ pc' = "call"
    /\ called' = Append(called, input)
    /\ result' = NoResult
    /\ UNCHANGED <<lines, metadata, i, files, currentFile, currentHunk,
                   fileObjs, hunkObjs, returned>>
    /\ UNCHANGED page

Boolean(b) == [kind |-> "boolean", value |-> b]

\* a call of isValidPatch on the argument, from its entry to its return
CallIsValidPatch ==
    /\ pc = "call"
    /\ result' = Boolean(isValidPatch(patchText))
    /\ pc' = "done"
    /\ UNCHANGED <<patchText, lines, metadata, i, files, currentFile, currentHunk,
                   fileObjs, hunkObjs, called, returned>>
    /\ UNCHANGED page

\* a time value: whole seconds since the epoch and the milliseconds past them
TimeValue(s, m) == [kind |-> "time", sec |-> s, ms |-> m]

\* the page before anything is loaded or saved
InitPage ==
    /\ storage = <<>>
    /\ nextId = 0
    /\ currentPatch = Null
    /\ currentSavedPatchId = Null
    /\ savePrompt = FALSE
    /\ existsModal = Null

\* the start of a call on one of Inputs
InitCall(Inputs) ==
    /\ InitPage
    /\ patchText \in Inputs
    /\ pc = "call"
    /\ lines = <<>>
    /\ metadata = extractMetadata(<<>>)
    /\ i = 0
    /\ files = <<>>
    /\ currentFile = NULL
    /\ currentHunk = NULL
    /\ fileObjs = <<>>
    /\ hunkObjs = <<>>
    /\ result = NoResult
    /\ called = <<patchText>>
    /\ returned = <<>>

InitOn(Inputs) == clock = TimeValue(0, 0) /\ InitCall(Inputs)

\* one call of parse
Next == Parse \/ ScanLine \/ Return

-----------------------------------------------------------------------------
(* Inputs                                                                   *)

\* all texts of 1..n lines drawn from the vocabulary V
TextsOf(V, n) == {join(ls, "\n") : ls \in UNION {[1..k -> V] : k \in 1..n}}

\* arguments that are not texts
NonTexts == {Null, Undefined, Num(0), Num(7)}

\* the minimal single-file patch of the specification's scenario
Scenario ==
    join(<<"diff --git a/foo.txt b/foo.txt", "index 123..456 100644",
           "--- a/foo.txt", "+++ b/foo.txt", "@@ -1,2 +1,2 @@",
           " line one", "-old line", "+new line">>, "\n")

MaxLines == 5

HunkVocabulary ==
    {"diff --git a/x b/x", "@@ -1,2 +1,2 @@ f()", "@@ -1,2 +1,2", " c", "-o", "+n", ""}

HunkInputs ==
    {Str(t) : t \in TextsOf(HunkVocabulary, MaxLines) \cup {Scenario}} \cup NonTexts

Init == InitOn(HunkInputs)

Spec == Init /\ [][Next]_vars

MaxKindLines == 4

\* every kind of line the hunk-content statement tells apart, and a binary file
KindVocabulary ==
    {"diff --git a/x b/x", "@@ -1,2 +1,2 @@ f()", " c", "-o", "+n", "+++ b/x", "--- a/x",
     "\\ No newline at end of file", "Binary files a/x and b/x differ"}

InitKinds == InitOn({Str(t) : t \in TextsOf(KindVocabulary, MaxKindLines)})

SpecKinds == InitKinds /\ [][Next]_vars

MaxHeaderLines == 5

\* well-formed and malformed file headers, around one hunk
HeaderVocabulary ==
    {"diff --git a/x b/x", "diff --git a/y b/z", "diff --git x y", "@@ -1,2 +1,2 @@ f()", "+n"}

InitHeaders == InitOn({Str(t) : t \in TextsOf(HeaderVocabulary, MaxHeaderLines)})

SpecHeaders == InitHeaders /\ [][Next]_vars

MaxMarkerLines == 4

\* file headers and the marker lines that set a file's type
MarkerVocabulary ==
    {"diff --git a/x b/x", "diff --git a/y b/z", "diff --git x y", "new file mode 100644",
     "deleted file mode 100644", "rename from x", "index 123..456 100644"}

InitMarkers == InitOn({Str(t) : t \in TextsOf(MarkerVocabulary, MaxMarkerLines)})

SpecMarkers == InitMarkers /\ [][Next]_vars

MaxOrphanLines == 4

\* the lines that act on the current file or hunk, and the two file headers
OrphanVocabulary ==
    {"diff --git a/x b/x", "diff --git x y", "new file mode 100644",
     "deleted file mode 100644", "rename from x", "Binary files a/x and b/x differ",
     "@@ -1,2 +1,2 @@ f()", "+n", "-o", " c"}

InitOrphans == InitOn({Str(t) : t \in TextsOf(OrphanVocabulary, MaxOrphanLines)})

SpecOrphans == InitOrphans /\ [][Next]_vars

MaxHunkHeaders == 2

\* the components a hunk header is written from: the start numbers, the
\* counts ("" is a count left out) and the text after the second '@@'
Starts == {"1", "12"}
Counts == {"", "0", "3"}
Headings == {"", " f() "}

\* '@@ -a[,b] +c[,d] @@ heading'
hunkHeaderLine(a, b, c, d, h) ==
    "@@ -" \o a \o (IF b = "" THEN "" ELSE "," \o b)
          \o " +" \o c \o (IF d = "" THEN "" ELSE "," \o d) \o " @@" \o h

HunkHeaderVocabulary ==
    {hunkHeaderLine("12", b, "4", d, h) : b \in Counts, d \in Counts, h \in Headings}
        \cup {hunkHeaderLine("1", "3", c, "", "") : c \in Starts} \cup {"+n"}

\* a first line that starts a file or none, then hunk headers and '+' lines
HunkHeaderInputs ==
    {Str(first \o "\n" \o t) :
        first \in {"diff --git a/x b/x", "index 123..456 100644"},
        t \in TextsOf(HunkHeaderVocabulary, MaxHunkHeaders)}

InitHunkHeaders == InitOn(HunkHeaderInputs)

SpecHunkHeaders == InitHunkHeaders /\ [][Next]_vars

MaxBodyLines == 2

\* a full SHA-1 in lowercase hexadecimal
FullHash == "0123456789abcdef0123456789abcdef01234567"

\* the token after 'From ': a full hash, a longer and a shorter run of
\* hexadecimal digits, a hash in capitals, a 40-character word that is not
\* hexadecimal
HashTokens ==
    {FullHash, FullHash \o "89abcdef", "0123456", "0123456789ABCDEF0123456789ABCDEF01234567",
     "0123456789abcdef0123456789abcdef0123456g"}

\* what follows the token on the 'From ' line
AfterToken == {"", " Mon Sep 17 00:00:00 2001"}

AuthorNames == {"Jane Doe", "J"}
AuthorEmails == {"jane@example.com"}
DateTexts == {"Mon Jan 1", " Mon, 1 Jan 2024 10:00:00 +0000 "}
SubjectTexts == {"Fix bug"}

\* the lines after the header block: the '---' separator and a diff
BodyVocabulary == {"---", " x | 2 +-", "diff --git a/x b/x", "@@ -1,2 +1,2 @@ f()", "+n"}

\* the mailbox header block of git format-patch
mailboxHeader(token, after, name, email, date, subject) ==
    <<"From " \o token \o after, "From: " \o name \o " <" \o email \o ">",
      "Date: " \o date, "Subject: " \o subject, "">>

MailboxInputs ==
    {Str(join(mailboxHeader(token, after, name, email, date, subject), "\n") \o "\n" \o body) :
        token \in HashTokens, after \in AfterToken, name \in AuthorNames,
        email \in AuthorEmails, date \in DateTexts, subject \in SubjectTexts,
        body \in TextsOf(BodyVocabulary, MaxBodyLines)}

InitMailbox == InitOn(MailboxInputs)

SpecMailbox == InitMailbox /\ [][Next]_vars

MaxAuthorLines == 4

\* 'From: ' lines with and without an address, among other header lines
AuthorVocabulary ==
    {"From: Jane Doe <jane@example.com>", "From:  Bob  ", "Date: Mon Jan 1",
     "Subject: Fix bug", "", "diff --git a/x b/x"}

InitAuthors == InitOn({Str(t) : t \in TextsOf(AuthorVocabulary, MaxAuthorLines)})

SpecAuthors == InitAuthors /\ [][Next]_vars

MaxSubjectLines == 4

\* 'Subject: ' lines, lines that continue a message and lines that end it
SubjectVocabulary ==
    {"Subject: Fix bug", "Subject:  Again ", "  second line ", "", "--- a/x", "Date: Mon Jan 1"}

InitSubjects == InitOn({Str(t) : t \in TextsOf(SubjectVocabulary, MaxSubjectLines)})

SpecSubjects == InitSubjects /\ [][Next]_vars

MaxRefLines == 4

\* parenthesized lists of names, and lines that are none
RefVocabulary ==
    {"(HEAD -> main, origin/main)", "  (tag: v1)", "( a ,b )", "()", "(no end", "x (y)",
     "Subject: Fix bug"}

InitRefs == InitOn({Str(t) : t \in TextsOf(RefVocabulary, MaxRefLines)})

SpecRefs == InitRefs /\ [][Next]_vars

MaxWindowCalls == 2

\* header lines and a file header, for the lines at the edge of the window
WindowVocabulary == {"From: Bob", "Subject: Two", "diff --git a/x b/x"}

\* texts of one line more than the window: a subject line, blank lines, then
\* the last line of the window and the first line after it
WindowInputs ==
    {Str(join(<<"Subject: One">> \o [k \in 1..(MetadataWindow - 2) |-> ""] \o <<last, after>>,
              "\n")) :
        last \in WindowVocabulary, after \in WindowVocabulary}

InitWindow == InitOn(WindowInputs)

NextWindow == Next \/ \E input \in WindowInputs : CallAgain(input, MaxWindowCalls)

SpecWindow == InitWindow /\ [][NextWindow]_vars

MaxValidLines == 2

\* lines that start with one of the indicators, lines that nearly do, and a
\* line that holds a carriage return
ValidVocabulary ==
    {"diff --git a/x b/x", "diff --gitx", "---", "--- a/x", "+++", "+++ b/x", "@@ -1 +1 @@",
     "@@", "random text", " @@ x", "x\r@@ y", ""}

ValidInputs == {Str(t) : t \in TextsOf(ValidVocabulary, MaxValidLines)} \cup NonTexts

InitValid == InitOn(ValidInputs)

NextValid == CallIsValidPatch

SpecValid == InitValid /\ [][NextValid]_vars

-----------------------------------------------------------------------------
(* detectLanguage (lines 545-603)                                           *)

Function(n) == [kind |-> "function", name |-> n]
Object(n) == [kind |-> "object", name |-> n]

\* the properties every object literal inherits from Object.prototype
ObjectPrototype ==
    [n \in {"constructor", "hasOwnProperty", "isPrototypeOf", "propertyIsEnumerable",
            "toLocaleString", "toString", "valueOf", "__defineGetter__",
            "__defineSetter__", "__lookupGetter__", "__lookupSetter__", "__proto__"} |->
        IF n = "__proto__" THEN Object("Object.prototype") ELSE Function(n)]

UpperCase == "ABCDEFGHIJKLMNOPQRSTUVWXYZ"
LowerCase == "abcdefghijklmnopqrstuvwxyz"

lowerChar(c) ==
    IF \E k \in 1..Len(UpperCase) : charAt(UpperCase, k) = c
    THEN charAt(LowerCase, CHOOSE k \in 1..Len(UpperCase) : charAt(UpperCase, k) = c)
    ELSE c

RECURSIVE toLowerCase(_)
\* s.toLowerCase(), within ASCII
toLowerCase(s) == IF s = "" THEN "" ELSE lowerChar(charAt(s, 1)) \o toLowerCase(substring(s, 1))

\* the positions of the dots of s
dots(s) == {k \in 1..Len(s) : charAt(s, k) = "."}

\* filePath.match(/\.([^.]+)$/): a dot and one or more characters that are
\* not dots up to the end of the path
getFileExtension(filePath) ==
    IF dots(filePath) = {} \/ Max(dots(filePath)) = Len(filePath) THEN ""
    ELSE substring(filePath, Max(dots(filePath)))

languageMap ==
    [js |-> "javascript", jsx |-> "jsx", ts |-> "typescript", tsx |-> "tsx",
     py |-> "python", java |-> "java", go |-> "go", rs |-> "rust", c |-> "c",
     cpp |-> "cpp", cc |-> "cpp", cxx |-> "cpp", h |-> "c", hpp |-> "cpp",
     cs |-> "csharp", php |-> "php", rb |-> "ruby", css |-> "css", scss |-> "scss",
     sass |-> "sass", less |-> "less", html |-> "markup", xml |-> "markup",
     svg |-> "markup", md |-> "markdown", json |-> "json", yaml |-> "yaml",
     yml |-> "yaml", toml |-> "toml", sh |-> "bash", bash |-> "bash", zsh |-> "bash",
     sql |-> "sql", dockerfile |-> "docker", makefile |-> "makefile"]

\* obj[key] on an object literal with string values: its own property, else
\* the one it inherits, else undefined
getProperty(obj, key) ==
    IF key \in DOMAIN obj THEN Str(obj[key])
    ELSE IF key \in DOMAIN ObjectPrototype THEN ObjectPrototype[key]
    ELSE Undefined

\* array.pop() on the array a call has just built
pop(arr) == arr[Len(arr)]

detectLanguage(filePath) ==
    IF toLowerCase(pop(split(filePath, "/"))) = "dockerfile" THEN Str("docker")
    ELSE IF toLowerCase(pop(split(filePath, "/"))) = "makefile" THEN Str("makefile")
    ELSE IF toLowerCase(pop(split(filePath, "/"))) = ".gitignore" THEN Str("git")
    ELSE IF Falsy(getProperty(languageMap, toLowerCase(getFileExtension(filePath))))
         THEN Str("plaintext")
    ELSE getProperty(languageMap, toLowerCase(getFileExtension(filePath)))

\* a call of detectLanguage on the argument, from its entry to its return
CallDetectLanguage ==
    /\ pc = "call"
    /\ result' = detectLanguage(patchText.text)
    /\ pc' = "done"
    /\ UNCHANGED <<patchText, lines, metadata, i, files, currentFile, currentHunk,
                   fileObjs, hunkObjs, called, returned>>
    /\ UNCHANGED page

\* paths of up to MaxDirs directories and a file name
MaxDirs == 1

DirVocabulary == {"src", "v1.js", "Makefile"}

NameVocabulary ==
    {"Dockerfile", "dockerfile", "DOCKERFILE", "Makefile", ".gitignore", ".GitIgnore",
     "Dockerfile.js", "app.dockerfile", "a.js", "a.JS", "b.Py", "c.tsx", "README", "a.",
     "a.tar.yml", "x.constructor", "x.__proto__", "x.toString", "x.unknown", "", ".md",
     "makefile.rb", "a.h", "a.svg", "x.valueOf"}

PathsOf(D, N, n) ==
    {join(ds \o <<name>>, "/") : ds \in UNION {[1..k -> D] : k \in 0..n}, name \in N}

LanguageInputs == {Str(p) : p \in PathsOf(DirVocabulary, NameVocabulary, MaxDirs)}

InitLanguages == InitOn(LanguageInputs)

NextLanguages == CallDetectLanguage

SpecLanguages == InitLanguages /\ [][NextLanguages]_vars

-----------------------------------------------------------------------------
(* groupFilesByDirectory (lines 610-626)                                    *)

\* line 613: the path a file is grouped by
groupPath(file) == IF file.newPath # "/dev/null" THEN file.newPath ELSE file.oldPath

\* lines 615-616: parts.slice(0, -1).join('/'), or '/' for a single part
groupDir(file) ==
    IF Len(split(groupPath(file), "/")) > 1
    THEN join(SubSeq(split(groupPath(file), "/"), 1, Len(split(groupPath(file), "/")) - 1), "/")
    ELSE "/"

\* lines 618-620: !grouped[dir] holds when dir is neither a group nor a name
\* the object inherits
ensureGroup(grouped, dir) ==
    IF dir \notin DOMAIN grouped /\ dir \notin DOMAIN ObjectPrototype
    THEN grouped @@ (dir :> <<>>)
    ELSE grouped

\* line 622: grouped[dir].push(file); an inherited value has no push
pushToGroup(s, dir, file) ==
    IF dir \in DOMAIN s.grouped THEN [s EXCEPT !.grouped[dir] = Append(@, file)]
    ELSE [s EXCEPT !.threw = TRUE]

\* the callback of files.forEach
groupFile(s, file) ==
    pushToGroup([s EXCEPT !.grouped = ensureGroup(@, groupDir(file))], groupDir(file), file)

RECURSIVE groupFrom(_, _, _)
\* files.forEach from index k on; an exception ends it
groupFrom(s, fs, k) ==
    IF k > Len(fs) \/ s.threw THEN s ELSE groupFrom(groupFile(s, fs[k]), fs, k + 1)

groupFilesByDirectory(fs) == groupFrom([grouped |-> [d \in {} |-> <<>>], threw |-> FALSE], fs, 1)

Groups(g) == [kind |-> "groups", groups |-> g]

\* a call of groupFilesByDirectory on the argument, from its entry to its
\* return or its exception
CallGroupFilesByDirectory ==
    /\ pc = "call"
    /\ pc' = IF groupFilesByDirectory(patchText).threw THEN "threw" ELSE "done"
    /\ result' = IF groupFilesByDirectory(patchText).threw
                 THEN Thrown("grouped[dir].push is not a function")
                 ELSE Groups(groupFilesByDirectory(patchText).grouped)
    /\ UNCHANGED <<patchText, lines, metadata, i, files, currentFile, currentHunk,
                   fileObjs, hunkObjs, called, returned>>
    /\ UNCHANGED page

\* arrays of up to MaxFiles files
MaxFiles == 2

pathsOfFile(old, new) == [oldPath |-> old, newPath |-> new]

FileVocabulary ==
    {pathsOfFile("a.js", "a.js"), pathsOfFile("src/a.js", "src/a.js"),
     pathsOfFile("src/b.js", "/dev/null"), pathsOfFile("/dev/null", "lib/x/c.js"),
     pathsOfFile("/dev/null", "README"), pathsOfFile("old/d.js", "src/d.js"),
     pathsOfFile("constructor/e.js", "constructor/e.js"), pathsOfFile("/abs", "/abs"),
     pathsOfFile("toString/f", "/dev/null")}

GroupInputs == UNION {[1..k -> FileVocabulary] : k \in 0..MaxFiles}

InitGroups == InitOn(GroupInputs)

NextGroups == CallGroupFilesByDirectory

SpecGroups == InitGroups /\ [][NextGroups]_vars

-----------------------------------------------------------------------------
(* formatRelativeTime (lines 633-658)                                       *)

\* the Number NaN; finite numbers are Num(n)
NaN == [kind |-> "NaN"]

isDigits(s) == \A k \in 1..Len(s) : charAt(s, k) \in Digits

isLeapYear(y) == y % 4 = 0 /\ (y % 100 # 0 \/ y % 400 = 0)

daysInMonth(y, m) ==
    IF m = 2 THEN (IF isLeapYear(y) THEN 29 ELSE 28)
    ELSE IF m \in {4, 6, 9, 11} THEN 30 ELSE 31

RECURSIVE daysBeforeMonth(_, _)
daysBeforeMonth(y, m) ==
    IF m = 1 THEN 0 ELSE daysBeforeMonth(y, m - 1) + daysInMonth(y, m - 1)

leapDaysBefore(y) == (y - 1) \div 4 - (y - 1) \div 100 + (y - 1) \div 400

\* the number of the day y-m-d, counted from 1970-01-01
MakeDay(y, m, d) ==
    365 * (y - 1970) + leapDaysBefore(y) - leapDaysBefore(1970) + daysBeforeMonth(y, m) + d - 1

\* the date-time format YYYY-MM-DDTHH:mm:ssZ
isDateTimeFormat(s) ==
    /\ Len(s) = 20
    /\ isDigits(SubSeq(s, 1, 4)) /\ charAt(s, 5) = "-"
    /\ isDigits(SubSeq(s, 6, 7)) /\ charAt(s, 8) = "-"
    /\ isDigits(SubSeq(s, 9, 10)) /\ charAt(s, 11) = "T"
    /\ isDigits(SubSeq(s, 12, 13)) /\ charAt(s, 14) = ":"
    /\ isDigits(SubSeq(s, 15, 16)) /\ charAt(s, 17) = ":"
    /\ isDigits(SubSeq(s, 18, 19)) /\ charAt(s, 20) = "Z"

\* the elements of a text in the date-time format are within their bounds
inBounds(s) ==
    /\ parseInt(SubSeq(s, 6, 7)) \in 1..12
    /\ parseInt(SubSeq(s, 9, 10)) \in 1..daysInMonth(parseInt(SubSeq(s, 1, 4)), parseInt(SubSeq(s, 6, 7)))
    /\ parseInt(SubSeq(s, 12, 13)) <= 23
    /\ parseInt(SubSeq(s, 15, 16)) <= 59
    /\ parseInt(SubSeq(s, 18, 19)) <= 59

\* new Date(s) for a string s: the time value of a text in the date-time
\* format, NaN for a text with an element out of bounds and for a text that
\* holds no date
DateParse(s) ==
    IF isDateTimeFormat(s) /\ inBounds(s)
    THEN TimeValue(MakeDay(parseInt(SubSeq(s, 1, 4)), parseInt(SubSeq(s, 6, 7)),
                           parseInt(SubSeq(s, 9, 10))) * 86400
                   + parseInt(SubSeq(s, 12, 13)) * 3600
                   + parseInt(SubSeq(s, 15, 16)) * 60
                   + parseInt(SubSeq(s, 18, 19)), 0)
    ELSE NaN

\* now - date in milliseconds, held as whole seconds and the milliseconds
\* past them; NaN when the date is invalid
minus(now, date) ==
    IF date.kind = "NaN" THEN NaN
    ELSE IF now.ms >= date.ms THEN TimeValue(now.sec - date.sec, now.ms - date.ms)
    ELSE TimeValue(now.sec - date.sec - 1, now.ms - date.ms + 1000)

\* Math.floor(diffMs / 1000)
floorSeconds(diffMs) == IF diffMs.kind = "NaN" THEN NaN ELSE Num(diffMs.sec)

\* Math.floor(v / n)
floorDiv(v, n) == IF v.kind = "NaN" THEN NaN ELSE Num(v.num \div n)

\* v < n: false for NaN
lessThan(v, n) == v.kind = "number" /\ v.num < n

digitChar(d) == charAt("0123456789", d + 1)

RECURSIVE digitsOf(_)
digitsOf(n) == IF n < 10 THEN digitChar(n) ELSE digitsOf(n \div 10) \o digitChar(n % 10)

\* `${v}` for an integer or NaN
numberToString(v) ==
    IF v.kind = "NaN" THEN "NaN"
    ELSE IF v.num < 0 THEN "-" \o digitsOf(0 - v.num) ELSE digitsOf(v.num)

\* countLabel with the plural for every count
countLabel_AlwaysPlural(v, unit) ==
    numberToString(v) \o " " \o unit \o "s" \o " ago"

\* `${v} unit${v !== 1 ? 's' : ''} ago`
countLabel(v, unit) ==
    numberToString(v) \o " " \o unit \o (IF v # Num(1) THEN "s" ELSE "") \o " ago"

\* lines 640-646
diffSecOf(dateString, now) == floorSeconds(minus(now, DateParse(dateString)))
diffMinOf(diffSec) == floorDiv(diffSec, 60)
diffHourOf(diffSec) == floorDiv(diffMinOf(diffSec), 60)
diffDayOf(diffSec) == floorDiv(diffHourOf(diffSec), 24)
diffWeekOf(diffSec) == floorDiv(diffDayOf(diffSec), 7)
diffMonthOf(diffSec) == floorDiv(diffDayOf(diffSec), 30)
diffYearOf(diffSec) == floorDiv(diffDayOf(diffSec), 365)

\* lines 648-654
relativeLabel(diffSec) ==
    IF lessThan(diffSec, 60) THEN "just now"
    ELSE IF lessThan(diffMinOf(diffSec), 60) THEN countLabel(diffMinOf(diffSec), "minute")
    ELSE IF lessThan(diffHourOf(diffSec), 24) THEN countLabel(diffHourOf(diffSec), "hour")
    ELSE IF lessThan(diffDayOf(diffSec), 7) THEN countLabel(diffDayOf(diffSec), "day")
    ELSE IF lessThan(diffWeekOf(diffSec), 4) THEN countLabel(diffWeekOf(diffSec), "week")
    ELSE IF lessThan(diffMonthOf(diffSec), 12) THEN countLabel(diffMonthOf(diffSec), "month")
    ELSE countLabel(diffYearOf(diffSec), "year")

\* nothing in the try block raises for a string, so the catch is never entered
formatRelativeTime(dateString, now) ==
    IF Falsy(dateString) THEN Str("")
    ELSE Str(relativeLabel(diffSecOf(dateString.text, now)))

\* a call of formatRelativeTime on the argument, from its entry to its return
CallFormatRelativeTime ==
    /\ pc = "call"
    /\ result' = formatRelativeTime(patchText, clock)
    /\ pc' = "done"
    /\ UNCHANGED <<patchText, lines, metadata, i, files, currentFile, currentHunk,
                   fileObjs, hunkObjs, called, returned>>
    /\ UNCHANGED page

\* the clock runs from the first date of DateVocabulary to MaxDays days later
MaxDays == 740

Anchor == "2024-01-01T00:00:00Z"

\* valid dates around the anchor, dates with an element out of bounds, texts
\* that hold no date, and no date at all
DateVocabulary ==
    {Str(Anchor), Str("2023-12-31T23:59:59Z"), Str("2024-01-01T00:01:00Z"),
     Str("2024-02-30T00:00:00Z"), Str("2024-13-01T00:00:00Z"), Str("not a date"),
     Str(""), Null}

\* seconds of a day on either side of the minute, the hour and the day
SecondsVocabulary == {0, 59, 60, 3599, 3600, 86399}

Clocks ==
    {TimeValue(DateParse(Anchor).sec + d * 86400 + s, m) :
        d \in 0..MaxDays, s \in SecondsVocabulary, m \in {0, 999}}

InitTimes == clock \in Clocks /\ InitCall(DateVocabulary)

NextTimes == CallFormatRelativeTime

SpecTimes == InitTimes /\ [][NextTimes]_vars

\* patches that end with the signature of a mail: texts of up to
\* MaxSignatureLines lines
MaxSignatureLines == 4

SignatureVocabulary ==
    {"diff --git a/x b/x", "@@ -1 +1 @@", "@@ -0,0 +1,2 @@", "-o", "+n", " c", "-- ",
     "2.39.0"}

InitSignatures == InitOn({Str(t) : t \in TextsOf(SignatureVocabulary, MaxSignatureLines)})

SpecSignatures == InitSignatures /\ [][Next]_vars

MaxCalls == 3

\* the arguments of successive calls
CallInputs ==
    {Str("diff --git a/x b/x\n@@ -1,2 +1,2 @@ f()\n+n"),
     Str("diff --git a/x b/x\n@@ -1,2 +1,2 @@ f()\n-o\ndiff --git a/y b/z"),
     Str("+n"), Str(""), Null}

InitCalls == InitOn(CallInputs)

NextCalls == Next \/ \E input \in CallInputs : CallAgain(input, MaxCalls)

SpecCalls == InitCalls /\ [][NextCalls]_vars

\* parseFiles as a function of the lines: the loop of ScanLine steps run to
\* its end, then Return's part of it (lines 415-518)
RECURSIVE scanFrom(_, _, _)
scanFrom(s, ls, k) ==
    IF k > Len(ls) \/ s.threw THEN s ELSE scanFrom(LoopBody(s, ls[k]), ls, k + 1)

parseFiles(ls) == filesValue(SaveLastFile(scanFrom(FreshLocals, ls, 1)))

-----------------------------------------------------------------------------
(* StorageManager (src/README.md, lines 36-405)                             *)

\* PatchParser.parse on a valid text, as a value
parse(text) ==
    CHOOSE r \in {[kind     |-> "object",
                   metadata |-> extractMetadata(split(text, "\n")),
                   files    |-> fs,
                   stats    |-> calculateStats(fs),
                   raw      |-> text] : fs \in {parseFiles(split(text, "\n"))}} : TRUE

\* n written with at least w digits
padStart(n, w) == IF Len(digitsOf(n)) >= w THEN digitsOf(n)
                  ELSE SubSeq("0000", 1, w - Len(digitsOf(n))) \o digitsOf(n)

\* the date of day number z, counted from 1970-01-01, in the civil calendar
dayOfEra(z) == (z + 719468) % 146097
yearOfEra(z) ==
    (dayOfEra(z) - dayOfEra(z) \div 1460 + dayOfEra(z) \div 36524 - dayOfEra(z) \div 146096)
        \div 365
dayOfYear(z) ==
    dayOfEra(z) - (365 * yearOfEra(z) + yearOfEra(z) \div 4 - yearOfEra(z) \div 100)
monthFromMarch(z) == (5 * dayOfYear(z) + 2) \div 153
DateFromTime(z) == dayOfYear(z) - (153 * monthFromMarch(z) + 2) \div 5 + 1
MonthFromTime(z) == IF monthFromMarch(z) < 10 THEN monthFromMarch(z) + 3 ELSE monthFromMarch(z) - 9
YearFromTime(z) ==
    yearOfEra(z) + ((z + 719468) \div 146097) * 400 + (IF MonthFromTime(z) <= 2 THEN 1 ELSE 0)

\* new Date().toISOString()
toISOString(t) ==
    padStart(YearFromTime(t.sec \div 86400), 4) \o "-"
        \o padStart(MonthFromTime(t.sec \div 86400), 2) \o "-"
        \o padStart(DateFromTime(t.sec \div 86400), 2) \o "T"
        \o padStart((t.sec % 86400) \div 3600, 2) \o ":"
        \o padStart((t.sec % 3600) \div 60, 2) \o ":"
        \o padStart(t.sec % 60, 2) \o "."
        \o padStart(t.ms, 3) \o "Z"

\* lines 333-335: the n-th id; the time and the random digits make every id
\* differ from the ones given before
generateID(n) == "g" \o digitsOf(n)

\* lines 342-360
generatePatchName(patchData) ==
    IF patchData.metadata.message # ""
    THEN SubSeq(split(patchData.metadata.message, "\n")[1], 1,
                Min({50, Len(split(patchData.metadata.message, "\n")[1])}))
    ELSE IF Len(patchData.files) > 0
    THEN "Patch for " \o pop(split(IF patchData.files[1].newPath # ""
                                   THEN patchData.files[1].newPath
                                   ELSE patchData.files[1].oldPath, "/"))
    ELSE "Patch (" \o digitsOf(patchData.stats.filesChanged) \o " files, +"
             \o digitsOf(patchData.stats.additions) \o " -"
             \o digitsOf(patchData.stats.deletions) \o ")"

\* lines 71-79: the entry savePatch creates
patchEntry(patchData, name, id, now) ==
    [id       |-> id,
     name     |-> IF name # "" THEN name ELSE generatePatchName(patchData),
     date     |-> toISOString(now),
     data     |-> patchData.raw,
     metadata |-> patchData.metadata,
     stats    |-> patchData.stats,
     size     |-> Len(patchData.raw)]

\* lines 81-93: the entry goes first and the array is cut after 50 entries
unshift(patches, entry) ==
    [storage |-> IF Len(patches) + 1 > 50 THEN SubSeq(<<entry>> \o patches, 1, 50)
                 ELSE <<entry>> \o patches,
     value   |-> entry]

\* lines 60-98: the new array and the entry returned; the texts of the model
\* are far below the quota checkStorageQuota tests
savePatch(patches, patchData, name, id, now) ==
    CHOOSE r \in {unshift(patches, e) : e \in {patchEntry(patchData, name, id, now)}} : TRUE

\* patches.find(p => p.id === id): the index of the first such entry, or 0
findById(patches, id) ==
    IF \E k \in 1..Len(patches) : patches[k].id = id
    THEN Min({k \in 1..Len(patches) : patches[k].id = id})
    ELSE 0

\* lines 105-108
loadPatch(patches, id) ==
    IF findById(patches, id) = 0 THEN Null ELSE patches[findById(patches, id)]

\* lines 115-118
findPatchByContent(patches, data) ==
    IF \E k \in 1..Len(patches) : patches[k].data = data
    THEN patches[Min({k \in 1..Len(patches) : patches[k].data = data})]
    ELSE Null

RECURSIVE filterOut(_, _)
\* patches.filter(p => p.id !== id)
filterOut(patches, id) ==
    IF patches = <<>> THEN <<>>
    ELSE (IF Head(patches).id # id THEN <<Head(patches)>> ELSE <<>>) \o filterOut(Tail(patches), id)

\* lines 125-141
deletePatch(patches, id) ==
    IF Len(filterOut(patches, id)) = Len(patches)
    THEN [storage |-> patches, value |-> FALSE]
    ELSE [storage |-> filterOut(patches, id), value |-> TRUE]

\* lines 149-163
renamePatch(patches, id, newName) ==
    IF findById(patches, id) = 0
    THEN [storage |-> patches, value |-> FALSE]
    ELSE [storage |-> [patches EXCEPT ![findById(patches, id)].name = newName], value |-> TRUE]

\* JSON.parse(jsonString): the argument is given by the document it holds; a
\* text that is not JSON raises a SyntaxError
NotJson == [kind |-> "text"]
JsonArray(items) == [kind |-> "array", items |-> items]
JsonObject == [kind |-> "dictionary"]

RECURSIVE mergeFrom(_, _, _)
\* the merge without the test of the id
mergeFrom_AddAll(s, imported, k) ==
    [merged |-> s.merged \o SubSeq(imported, k, Len(imported)),
     importCount |-> s.importCount + Len(imported) - k + 1]

\* lines 313-318: importedPatches.forEach from index k on
mergeFrom(s, imported, k) ==
    IF k > Len(imported) THEN s
    ELSE IF findById(s.merged, imported[k].id) = 0
    THEN mergeFrom([merged |-> Append(s.merged, imported[k]),
                    importCount |-> s.importCount + 1], imported, k + 1)
    ELSE mergeFrom(s, imported, k + 1)

\* lines 299-327
importPatches(patches, json) ==
    IF json = NotJson
    THEN [storage |-> patches,
          value   |-> Thrown("Failed to import patches: Unexpected token")]
    ELSE IF json.kind # "array"
    THEN [storage |-> patches,
          value   |-> Thrown("Failed to import patches: Invalid format: expected array")]
    ELSE [storage |-> mergeFrom([merged |-> patches, importCount |-> 0], json.items, 1).merged,
          value   |-> Num(mergeFrom([merged |-> patches, importCount |-> 0], json.items, 1).importCount)]

\* the return value of a call of the storage manager
Entry(e) == [kind |-> "entry", entry |-> e]

SavePatch(patchData, name, maxSaves) ==
    /\ nextId < maxSaves
    /\ storage' = savePatch(storage, patchData, name, generateID(nextId + 1), clock).storage
    /\ result' = Entry(savePatch(storage, patchData, name, generateID(nextId + 1), clock).value)
    /\ nextId' = nextId + 1
    /\ UNCHANGED <<clock, currentPatch, currentSavedPatchId, savePrompt, existsModal>>
    /\ UNCHANGED <<patchText, pc, lines, metadata, i, files, currentFile, currentHunk,
                   fileObjs, hunkObjs, called, returned>>

DeletePatch(id) ==
    /\ storage' = deletePatch(storage, id).storage
    /\ result' = Boolean(deletePatch(storage, id).value)
    /\ UNCHANGED <<clock, nextId, currentPatch, currentSavedPatchId, savePrompt, existsModal>>
    /\ UNCHANGED <<patchText, pc, lines, metadata, i, files, currentFile, currentHunk,
                   fileObjs, hunkObjs, called, returned>>

RenamePatch(id, newName) ==
    /\ storage' = renamePatch(storage, id, newName).storage
    /\ result' = Boolean(renamePatch(storage, id, newName).value)
    /\ UNCHANGED <<clock, nextId, currentPatch, currentSavedPatchId, savePrompt, existsModal>>
    /\ UNCHANGED <<patchText, pc, lines, metadata, i, files, currentFile, currentHunk,
                   fileObjs, hunkObjs, called, returned>>

\* the argument is kept in patchText
ImportPatches(json) ==
    /\ patchText' = json
    /\ storage' = importPatches(storage, json).storage
    /\ result' = importPatches(storage, json).value
    /\ UNCHANGED <<clock, nextId, currentPatch, currentSavedPatchId, savePrompt, existsModal>>
    /\ UNCHANGED <<pc, lines, metadata, i, files, currentFile, currentHunk,
                   fileObjs, hunkObjs, called, returned>>

\* the spec of the storage manager: up to MaxSaves saved patches and imports
\* of up to MaxExported entries
MaxSaves == 1
MaxExported == 50

PatchTexts ==
    {"diff --git a/src/x.js b/src/x.js\n@@ -1 +1 @@\n-o\n+n",
     "Subject: [PATCH] Fix bug\n\n---\ndiff --git a/y b/y\n@@ -0,0 +1 @@\n+n"}

\* an entry as exportPatches writes it: a patch of one file without hunks
exported(id, name) ==
    [id       |-> id,
     name     |-> name,
     date     |-> "2024-01-01T00:00:00.000Z",
     data     |-> "diff --git a/" \o id \o " b/" \o id,
     metadata |-> [commitHash |-> Null, author |-> Null, authorEmail |-> Null,
                   date |-> Null, message |-> "", refs |-> <<>>],
     stats    |-> [filesChanged |-> 1, additions |-> 0, deletions |-> 0],
     size     |-> Len("diff --git a/" \o id \o " b/" \o id)]

\* the export of n entries
exportOf(n) == JsonArray([k \in 1..n |-> exported("a" \o digitsOf(k), "Patch for a" \o digitsOf(k))])

\* documents to import: an export, an array that repeats ids, a document
\* that is not an array and a text that is not JSON
ImportVocabulary ==
    {exportOf(MaxExported),
     JsonArray(<<exported("a1", "other"), exported("b1", ""), exported("b1", "again"),
                 exported("g1", "")>>),
     JsonObject, NotJson}

NextStorage ==
    \/ \E text \in PatchTexts : SavePatch(parse(text), "", MaxSaves)
    \/ \E id \in {"g1", "a1"} : DeletePatch(id)
    \/ RenamePatch("b1", "renamed")
    \/ \E json \in ImportVocabulary : ImportPatches(json)

InitStorage == InitOn({Null})

SpecStorage == InitStorage /\ [][NextStorage]_vars

-----------------------------------------------------------------------------
(* Viewer (src/js/viewer.js, lines 1100-2604): loading and saving patches   *)

\* the state of the page, read from the variables
Page ==
    [storage |-> storage, nextId |-> nextId, currentPatch |-> currentPatch,
     currentSavedPatchId |-> currentSavedPatchId, savePrompt |-> savePrompt,
     existsModal |-> existsModal]

SetPage(s) ==
    /\ storage' = s.storage
    /\ nextId' = s.nextId
    /\ currentPatch' = s.currentPatch
    /\ currentSavedPatchId' = s.currentSavedPatchId
    /\ savePrompt' = s.savePrompt
    /\ existsModal' = s.existsModal

\* lines 2217-2258: the modal keeps the entry found and the parsed patch for
\* its buttons
showPatchAlreadySavedPrompt(s, existingPatch, parsedPatch) ==
    [s EXCEPT !.existsModal = [kind |-> "modal", existing |-> existingPatch.id,
                               raw |-> parsedPatch.raw]]

\* lines 2260-2300
promptToSavePatch(s) == [s EXCEPT !.savePrompt = TRUE]

\* lines 1466-1508: the duplicate check, the display and the prompt
showPatch(s, parsedPatch, skipDuplicateCheck) ==
    IF /\ Falsy(s.currentSavedPatchId)
       /\ ~skipDuplicateCheck
       /\ findPatchByContent(s.storage, parsedPatch.raw) # Null
    THEN showPatchAlreadySavedPrompt(s, findPatchByContent(s.storage, parsedPatch.raw),
                                     parsedPatch)
    ELSE IF Falsy(s.currentSavedPatchId)
    THEN promptToSavePatch([s EXCEPT !.currentPatch = parsedPatch])
    ELSE [s EXCEPT !.currentPatch = parsedPatch]

\* lines 1455-1514; an invalid text raises inside the try block and only a
\* toast is shown
loadPatchFromText(s, text, skipDuplicateCheck) ==
    IF ~isValidPatch(Str(text)) THEN s
    ELSE CHOOSE r \in {showPatch(s, parsedPatch, skipDuplicateCheck) :
                           parsedPatch \in {parse(text)}} : TRUE

\* lines 1534-1549
loadSavedPatch(s, patchId) ==
    IF loadPatch(s.storage, patchId) = Null THEN s
    ELSE loadPatchFromText([s EXCEPT !.currentSavedPatchId = Str(patchId)],
                           loadPatch(s.storage, patchId).data, FALSE)

\* lines 1989-1999
showInputSection(s) == [s EXCEPT !.currentPatch = Null, !.currentSavedPatchId = Null]

\* lines 1552-1564
loadSavedPatchById(s, patchId) ==
    IF loadPatch(s.storage, patchId) = Null THEN showInputSection(s)
    ELSE loadPatchFromText([s EXCEPT !.currentSavedPatchId = Str(patchId)],
                           loadPatch(s.storage, patchId).data, FALSE)

\* lines 2196-2215
savePatchToStorage(s, now) ==
    IF s.currentPatch = Null THEN s
    ELSE [s EXCEPT
            !.storage = savePatch(s.storage, s.currentPatch, "", generateID(s.nextId + 1), now).storage,
            !.nextId = s.nextId + 1,
            !.currentSavedPatchId = Str(generateID(s.nextId + 1))]

\* lines 2185-2194
handleSavePatch(s, now) ==
    IF s.currentPatch = Null THEN s
    ELSE IF ~Falsy(s.currentSavedPatchId) THEN s
    ELSE savePatchToStorage(s, now)

\* lines 2375-2393
handleSaveFromShareModal(s, now) ==
    IF s.currentPatch = Null THEN s
    ELSE [s EXCEPT
            !.storage = savePatch(s.storage, s.currentPatch, "", generateID(s.nextId + 1), now).storage,
            !.nextId = s.nextId + 1]

\* the ids of the cards of the saved list and of the recent patches
storedIds == {storage[k].id : k \in 1..Len(storage)}

\* lines 1424-1434: the Parse button of the input section, on a trimmed text
HandleParsePatch(text) ==
    /\ currentPatch = Null /\ existsModal = Null
    /\ text # ""
    /\ \E s \in {loadPatchFromText(Page, text, FALSE)} : SetPage(s)
    /\ UNCHANGED <<clock, parser>>

\* lines 2150-2156, 2076-2079: a Load button of the saved list
ClickLoadPatch(patchId) ==
    /\ existsModal = Null
    /\ \E s \in {loadSavedPatch(Page, patchId)} : SetPage(s)
    /\ UNCHANGED <<clock, parser>>

\* lines 2158-2169: a Delete button of the saved list, confirmed
ClickDeletePatch(patchId) ==
    /\ existsModal = Null
    /\ storage' = deletePatch(storage, patchId).storage
    /\ UNCHANGED <<nextId, currentPatch, currentSavedPatchId, savePrompt, existsModal>>
    /\ UNCHANGED <<clock, parser>>

\* line 1256: the save button of the header
ClickSavePatch(maxSaves) ==
    /\ existsModal = Null
    /\ nextId < maxSaves
    /\ \E s \in {handleSavePatch(Page, clock)} : SetPage(s)
    /\ UNCHANGED <<clock, parser>>

\* lines 2285-2288: the Save button of the toast, which then goes
ClickSavePrompt(maxSaves) ==
    /\ savePrompt
    /\ nextId < maxSaves
    /\ \E s \in {[savePatchToStorage(Page, clock) EXCEPT !.savePrompt = FALSE]} : SetPage(s)
    /\ UNCHANGED <<clock, parser>>

\* lines 2290-2299: the toast is closed or its ten seconds are over
DismissSavePrompt ==
    /\ savePrompt
    /\ savePrompt' = FALSE
    /\ UNCHANGED <<storage, nextId, currentPatch, currentSavedPatchId, existsModal>>
    /\ UNCHANGED <<clock, parser>>

\* line 1312: the save button of the share modal, shown for a patch whose
\* share link is long
ClickSaveFromShareModal(maxSaves) ==
    /\ existsModal = Null
    /\ currentPatch # Null
    /\ nextId < maxSaves
    /\ \E s \in {handleSaveFromShareModal(Page, clock)} : SetPage(s)
    /\ UNCHANGED <<clock, parser>>

\* line 1205: the New patch button of the viewer section
ClickNewPatch ==
    /\ existsModal = Null
    /\ currentPatch # Null
    /\ \E s \in {showInputSection(Page)} : SetPage(s)
    /\ UNCHANGED <<clock, parser>>

\* lines 2238-2242: the modal's Load button
ClickLoadExisting ==
    /\ existsModal # Null
    /\ \E s \in {loadSavedPatch([Page EXCEPT !.existsModal = Null], existsModal.existing)} : SetPage(s)
    /\ UNCHANGED <<clock, parser>>

\* lines 2245-2249: the modal's Save new copy button
ClickSaveNewCopy ==
    /\ existsModal # Null
    /\ \E s \in {loadPatchFromText([Page EXCEPT !.existsModal = Null], existsModal.raw, TRUE)} : SetPage(s)
    /\ UNCHANGED <<clock, parser>>

\* lines 2252-2255 and 1349-1355: the modal's close button shows the input
\* section; the Escape key only hides the modal
CloseExistsModal(escape) ==
    /\ existsModal # Null
    /\ \E s \in {IF escape THEN [Page EXCEPT !.existsModal = Null]
               ELSE showInputSection([Page EXCEPT !.existsModal = Null])} : SetPage(s)
    /\ UNCHANGED <<clock, parser>>

\* lines 1113-1158: the page is opened again on the link of a saved patch
OpenSavedLink(patchId) ==
    /\ \E s \in {loadSavedPatchById([Page EXCEPT !.currentPatch = Null,
                                               !.currentSavedPatchId = Null,
                                               !.savePrompt = FALSE,
                                               !.existsModal = Null], patchId)} : SetPage(s)
    /\ UNCHANGED <<clock, parser>>

\* the viewer with up to MaxViewerSaves saved patches
MaxViewerSaves == 2

ViewerTexts == PatchTexts \cup {"random text"}

NextViewer ==
    \/ \E text \in ViewerTexts : HandleParsePatch(text)
    \/ \E id \in storedIds : ClickLoadPatch(id)
    \/ \E id \in storedIds : ClickDeletePatch(id)
    \/ ClickSavePatch(MaxViewerSaves)
    \/ ClickSavePrompt(MaxViewerSaves)
    \/ DismissSavePrompt
    \/ ClickSaveFromShareModal(MaxViewerSaves)
    \/ ClickNewPatch
    \/ ClickLoadExisting
    \/ ClickSaveNewCopy
    \/ \E escape \in BOOLEAN : CloseExistsModal(escape)
    \/ \E id \in storedIds \cup {"zz"} : OpenSavedLink(id)

InitViewer == InitOn({Null})

SpecViewer == InitViewer /\ [][NextViewer]_vars

-----------------------------------------------------------------------------
(* Notions the properties below are stated in, written from the format of  *)
(* the lines and not from the parser's operators                            *)

\* the first n characters of s (all of s when it is shorter)
prefix(s, n) == SubSeq(s, 1, IF Len(s) < n THEN Len(s) ELSE n)

IsDiffGitLine(line) == prefix(line, 11) = "diff --git "
IsAtAtLine(line) == prefix(line, 2) = "@@"
IsAddLine(line) == charAt(line, 1) = "+" /\ prefix(line, 3) # "+++"
IsDelLine(line) == charAt(line, 1) = "-" /\ prefix(line, 3) # "---"
IsSpaceLine(line) == charAt(line, 1) = " "

\* the number of entries of type t among the lines of all entries of hunks
RECURSIVE countLines(_, _)
countLines(hunks, t) ==
    IF hunks = <<>> THEN 0
    ELSE Cardinality({k \in 1..Len(hunks[1].lines) : hunks[1].lines[k].type = t})
         + countLines(Tail(hunks), t)

\* the sum of field over the entries of a sequence, from the last entry down
RECURSIVE total(_, _, _)
total(fs, field, n) == IF n = 0 THEN 0 ELSE total(fs, field, n - 1) + fs[n][field]

IsBinaryLine(line) ==
    /\ prefix(line, 13) = "Binary files "
    /\ \E j \in 14..Len(line) : j + 6 <= Len(line) /\ SubSeq(line, j, j + 6) = " differ"

\* a line that starts a file: 'diff --git a/<old> b/<new>'
StartsFile(line) == IsDiffGitLine(line) /\ matchDiffGit(line).found

\* the index of the line that created the n-th file object
headerOf(ls, n) ==
    CHOOSE h \in 1..Len(ls) :
        StartsFile(ls[h]) /\ Cardinality({j \in 1..h : StartsFile(ls[j])}) = n

\* the indexes of the lines that start with 'diff --git '
diffGitLines(ls) == {j \in 1..Len(ls) : IsDiffGitLine(ls[j])}

\* the indexes of the lines that start a file
fileStarts(ls) == {j \in 1..Len(ls) : StartsFile(ls[j])}

\* the last line of the section that begins at line h and ends before the next
\* line of ends, or with the text
sectionEnd(ls, h, ends) ==
    LET later == {j \in ends : j > h}
    IN  IF later = {} THEN Len(ls) ELSE Min(later) - 1

\* a line that starts a hunk: '@@ -a[,b] +c[,d] @@ heading'
IsHunkStart(line) == IsAtAtLine(line) /\ matchHunkHeader(line).found

IsMalformedAtAt(line) == IsAtAtLine(line) /\ ~matchHunkHeader(line).found

Returned == pc = "done" /\ result.kind = "object"

-----------------------------------------------------------------------------
(* C1, C2: the counters                                                     *)

\* C1: in every returned patch, each file's additions is the number of 'add'
\* lines over all entries of its hunks, and its deletions the number of 'del'
\* lines, malformed '@@' and 'diff --git' lines included.
C1_CountersMatchHunks ==
    Returned =>
        \A k \in 1..Len(result.files) :
            /\ result.files[k].additions = countLines(result.files[k].hunks, "add")
            /\ result.files[k].deletions = countLines(result.files[k].hunks, "del")

\* C2: in every returned patch, stats.filesChanged is the number of files and
\* stats.additions / stats.deletions are the sums of the files' counters.
C2_StatsAggregateFiles ==
    Returned =>
        /\ result.stats.filesChanged = Len(result.files)
        /\ result.stats.additions = total(result.files, "additions", Len(result.files))
        /\ result.stats.deletions = total(result.files, "deletions", Len(result.files))

C2_Witness ==
    /\ Returned
    /\ Len(result.files) = 2
    /\ result.stats.additions >= 1
    /\ result.stats.deletions >= 1

-----------------------------------------------------------------------------
(* C3: binary files                                                         *)

\* C3: a file whose section holds a 'Binary files ... differ' line is returned
\* with isBinary = true, hunks = [], additions = 0 and deletions = 0, wherever
\* '@@', '+' and '-' lines stand in the section.
C3_BinaryFileIsEmpty ==
    Returned =>
        \A k \in 1..Len(files) :
            LET h == headerOf(lines, files[k])
            IN  (\E j \in h..sectionEnd(lines, h, diffGitLines(lines)) : IsBinaryLine(lines[j]))
                => /\ result.files[k].isBinary
                   /\ result.files[k].hunks = <<>>
                   /\ result.files[k].additions = 0
                   /\ result.files[k].deletions = 0

-----------------------------------------------------------------------------
(* C7: the classification of content lines                                  *)

\* the lines of the hunk current after a step, as they were before the step
\* (none when the step created the hunk)
linesBefore == IF currentHunk' <= Len(hunkObjs) THEN hunkObjs[currentHunk'].lines ELSE <<>>

\* what the step must have appended to the current hunk for the line scanned
appended(line, before) ==
    IF IsAddLine(line) THEN <<[type |-> "add", content |-> SubSeq(line, 2, Len(line))]>>
    ELSE IF IsDelLine(line) THEN <<[type |-> "del", content |-> SubSeq(line, 2, Len(line))]>>
    ELSE IF IsSpaceLine(line) /\ Len(before) >= 1
         THEN <<[type |-> "context", content |-> SubSeq(line, 2, Len(line))]>>
    ELSE <<>>

\* C7: for every line scanned while a non-binary file and a hunk are current
\* (current when the content statement runs, after the header statements of
\* the same iteration),
\* a '+' line that is not '+++' is appended as 'add', a '-' line that is not
\* '---' as 'del', a space line as 'context' only if the hunk already holds a
\* line, every other line is not appended, the content is the line without its
\* first character, and no other hunk's lines change.
C7_LineClassification ==
    [][(pc = "scan" /\ pc' = "scan" /\ i' = i + 1
        /\ currentFile' # NULL /\ currentHunk' # NULL
        /\ ~fileObjs'[currentFile'].isBinary)
       => /\ hunkObjs'[currentHunk'].lines
                = linesBefore \o appended(lines[i + 1], linesBefore)
          /\ \A h \in 1..Len(hunkObjs) :
                h # currentHunk' => hunkObjs'[h] = hunkObjs[h]]_vars

C7_Witness ==
    /\ pc = "scan"
    /\ i = 4
    /\ lines = <<"diff --git a/x b/x", "@@ -1,2 +1,2 @@ f()", "+n", " c">>
    /\ hunkObjs[currentHunk].lines =
          <<[type |-> "add", content |-> "n"], [type |-> "context", content |-> "c"]>>

-----------------------------------------------------------------------------
(* C5: malformed hunk headers                                               *)

\* line k of ls follows a malformed '@@' line that was scanned while a file and
\* a hunk were current, with no valid '@@' line and no 'diff --git ' line
\* between the two
orphaned(ls, k) ==
    \E m \in 1..(k - 1) :
        /\ IsMalformedAtAt(ls[m])
        /\ \A j \in (m + 1)..(k - 1) : ~IsHunkStart(ls[j]) /\ ~IsDiffGitLine(ls[j])
        /\ \E v \in 1..(m - 1) :
              /\ IsHunkStart(ls[v])
              /\ \E f \in 1..(v - 1) : StartsFile(ls[f])
              /\ \A j \in (v + 1)..(m - 1) : ~IsDiffGitLine(ls[j])

noRepeat(seq) == \A a, b \in 1..Len(seq) : seq[a] = seq[b] => a = b

\* C5: a malformed '@@' line scanned while a file and a hunk are current starts
\* no hunk and finalizes the current hunk into the file, once; every '+', '-'
\* or space line after it, up to the next valid '@@' line or 'diff --git '
\* line, changes no hunk's lines and no file's counters.
C5_MalformedHunkHeaderDropsLines ==
    [][/\ (pc = "scan" /\ pc' = "scan" /\ currentFile # NULL /\ currentHunk # NULL
           /\ IsMalformedAtAt(lines[i + 1]))
          => /\ Len(hunkObjs') = Len(hunkObjs)
             /\ fileObjs'[currentFile].hunks = Append(fileObjs[currentFile].hunks, currentHunk)
       /\ (pc = "scan" /\ pc' = "scan" /\ orphaned(lines, i + 1)
           /\ (IsAddLine(lines[i + 1]) \/ IsDelLine(lines[i + 1]) \/ IsSpaceLine(lines[i + 1])))
          => hunkObjs' = hunkObjs /\ fileObjs' = fileObjs
       /\ (pc = "scan" /\ pc' = "done")
          => \A f \in 1..Len(fileObjs') : noRepeat(fileObjs'[f].hunks)]_vars

-----------------------------------------------------------------------------
(* C6: the minimal single-file patch                                        *)

\* one file header, lines that are no header of any kind, one hunk header,
\* then a context line, a '-' line and a '+' line
singleHunkPatch(ls) ==
    LET n == Len(ls)
    IN  /\ n >= 5
        /\ StartsFile(ls[1])
        /\ \A j \in 2..(n - 4) :
              ~IsDiffGitLine(ls[j]) /\ ~IsAtAtLine(ls[j]) /\ ~IsBinaryLine(ls[j])
        /\ IsHunkStart(ls[n - 3])
        /\ IsSpaceLine(ls[n - 2])
        /\ IsDelLine(ls[n - 1])
        /\ IsAddLine(ls[n])

\* C6: such a patch yields one file with additions = 1, deletions = 1 and
\* hunks[0].lines = [context, del, add]: the context line that is the first
\* content line of the hunk is recorded.
C6_LeadingContextRecorded ==
    (Returned /\ singleHunkPatch(lines)) =>
        LET n == Len(lines)
        IN  /\ Len(result.files) = 1
            /\ result.files[1].additions = 1
            /\ result.files[1].deletions = 1
            /\ Len(result.files[1].hunks) >= 1
            /\ result.files[1].hunks[1].lines =
                  <<[type |-> "context", content |-> SubSeq(lines[n - 2], 2, Len(lines[n - 2]))],
                    [type |-> "del", content |-> SubSeq(lines[n - 1], 2, Len(lines[n - 1]))],
                    [type |-> "add", content |-> SubSeq(lines[n], 2, Len(lines[n]))]>>

-----------------------------------------------------------------------------
(* C8: errors                                                               *)

\* empty, absent or not a string
invalidArgument(v) == v.kind # "string" \/ v.text = ""

\* C8: parse raises exactly when its argument is empty, absent or not a
\* string, and then before any scanning; on every non-empty string it scans
\* to the end and returns a patch.
C8_RaisesExactlyOnInvalidInput ==
    /\ pc = "threw" =>
          /\ invalidArgument(patchText)
          /\ result.kind = "error"
          /\ lines = <<>> /\ i = 0 /\ files = <<>> /\ fileObjs = <<>> /\ hunkObjs = <<>>
    /\ (invalidArgument(patchText) /\ pc # "call") => pc = "threw"
    /\ pc = "scan" => i <= Len(lines)
    /\ pc = "done" => ~invalidArgument(patchText) /\ result.kind = "object" /\ i = Len(lines)

C8_Witness ==
    /\ pc = "threw"
    /\ patchText = Str("")
    /\ result = Thrown("Invalid patch: empty or not a string")

-----------------------------------------------------------------------------
(* C4: malformed file headers                                               *)

\* a 'diff --git ' line without the 'a/<old> b/<new>' pair
IsMalformedDiffGit(line) == IsDiffGitLine(line) /\ ~matchDiffGit(line).found

removeAt(ls, k) == SubSeq(ls, 1, k - 1) \o SubSeq(ls, k + 1, Len(ls))

\* the malformed 'diff --git ' lines scanned while a file is current
ignoredHeaders(ls) ==
    {k \in 1..Len(ls) : IsMalformedDiffGit(ls[k]) /\ \E j \in 1..(k - 1) : StartsFile(ls[j])}

\* C4: a malformed 'diff --git ' line scanned while a file is current leaves
\* the parser state unchanged and the file current, and parse returns the
\* files it returns for the text without that line, each file once.
C4_MalformedFileHeaderIgnored ==
    [][/\ (pc = "scan" /\ pc' = "scan" /\ currentFile # NULL
           /\ IsMalformedDiffGit(lines[i + 1]))
          => UNCHANGED <<files, currentFile, currentHunk, fileObjs, hunkObjs>>
       /\ (pc = "scan" /\ pc' = "done")
          => /\ \A k \in ignoredHeaders(lines) :
                   result'.files = parseFiles(removeAt(lines, k))
             /\ noRepeat(files')]_vars

-----------------------------------------------------------------------------
(* C10: the type of a file                                                  *)

IsMarker(line) ==
    \/ prefix(line, 13) = "new file mode"
    \/ prefix(line, 17) = "deleted file mode"
    \/ prefix(line, 11) = "rename from"

markerType(line) ==
    IF prefix(line, 13) = "new file mode" THEN "added"
    ELSE IF prefix(line, 17) = "deleted file mode" THEN "deleted"
    ELSE "renamed"

\* the marker lines of the section of the file begun at line h: the lines up to
\* the next line that starts a file
markersOf(ls, h) ==
    {j \in (h + 1)..sectionEnd(ls, h, fileStarts(ls)) : IsMarker(ls[j])}

-----------------------------------------------------------------------------
(* C9: successive calls                                                     *)

\* C9: every call that returns, returns what the first call on the same
\* argument returned, whatever was parsed in between, and raw is the argument.
C9_SameResultOnSameInput ==
    Returned =>
        /\ result = returned[patchText]
        /\ result.raw = patchText.text

C9_Witness ==
    /\ Returned
    /\ Len(called) = 3
    /\ called[3] = called[1]
    /\ called[2] # called[1]
    /\ called[2] \in DOMAIN returned
    /\ Len(result.files) = 2

-----------------------------------------------------------------------------
(* C11: the path sentinel of added and deleted files                        *)

IsNewFileMode(line) == prefix(line, 13) = "new file mode"
IsDeletedFileMode(line) == prefix(line, 17) = "deleted file mode"

\* the old and new path written on the line that created file object f
headerOld(ls, f) == matchDiffGit(ls[headerOf(ls, f)]).g1
headerNew(ls, f) == matchDiffGit(ls[headerOf(ls, f)]).g2

\* a step that scans a marker line of the given kind while a file is current
scansNewFileMode == pc = "scan" /\ pc' = "scan" /\ currentFile # NULL /\ IsNewFileMode(lines[i + 1])
scansDeletedFileMode ==
    pc = "scan" /\ pc' = "scan" /\ currentFile # NULL /\ IsDeletedFileMode(lines[i + 1])

\* C11, as stated: after a 'new file mode' line the current file has oldPath =
\* '/dev/null', type 'added' and newPath equal to the value parsed from its
\* 'diff --git' header; after a 'deleted file mode' line it has newPath =
\* '/dev/null', type 'deleted' and oldPath equal to its header value.
C11_SentinelAndHeaderPath ==
    [][/\ scansNewFileMode
          => /\ fileObjs'[currentFile].oldPath = "/dev/null"
             /\ fileObjs'[currentFile].type = "added"
             /\ fileObjs'[currentFile].newPath = headerNew(lines, currentFile)
       /\ scansDeletedFileMode
          => /\ fileObjs'[currentFile].newPath = "/dev/null"
             /\ fileObjs'[currentFile].type = "deleted"
             /\ fileObjs'[currentFile].oldPath = headerOld(lines, currentFile)]_vars

\* a line of the section of file f before line k satisfies the other marker
deletedBefore(ls, f, k) == \E j \in headerOf(ls, f)..(k - 1) : IsDeletedFileMode(ls[j])
addedBefore(ls, f, k) == \E j \in headerOf(ls, f)..(k - 1) : IsNewFileMode(ls[j])

\* C11, amended: the marker line writes its own path and the type and leaves
\* the other path as it was: that path is the header's value unless the other
\* marker was seen for the file before, and then it is '/dev/null' already.
C11_SentinelKeepsOtherPath ==
    [][/\ scansNewFileMode
          => /\ currentFile' = currentFile
             /\ fileObjs'[currentFile].oldPath = "/dev/null"
             /\ fileObjs'[currentFile].type = "added"
             /\ fileObjs'[currentFile].newPath = fileObjs[currentFile].newPath
             /\ fileObjs'[currentFile].newPath =
                   IF deletedBefore(lines, currentFile, i + 1) THEN "/dev/null"
                   ELSE headerNew(lines, currentFile)
       /\ scansDeletedFileMode
          => /\ currentFile' = currentFile
             /\ fileObjs'[currentFile].newPath = "/dev/null"
             /\ fileObjs'[currentFile].type = "deleted"
             /\ fileObjs'[currentFile].oldPath = fileObjs[currentFile].oldPath
             /\ fileObjs'[currentFile].oldPath =
                   IF addedBefore(lines, currentFile, i + 1) THEN "/dev/null"
                   ELSE headerOld(lines, currentFile)]_vars

C11_Witness ==
    /\ pc = "scan"
    /\ i = 2
    /\ lines[1] = "diff --git a/y b/z"
    /\ lines[2] = "new file mode 100644"
    /\ fileObjs[currentFile].oldPath = "/dev/null"
    /\ fileObjs[currentFile].newPath = "z"
    /\ fileObjs[currentFile].type = "added"

-----------------------------------------------------------------------------
(* C12: one file per file header, in the order of the text                  *)

\* every 'diff --git ' line carries the 'a/<old> b/<new>' pair
allWellFormed(ls) == \A j \in diffGitLines(ls) : StartsFile(ls[j])

\* the k-th smallest element of a set of line indexes
nthOf(S, k) == CHOOSE j \in S : Cardinality({x \in S : x <= j}) = k

\* C12, as stated: when every 'diff --git ' line is well formed, files has one
\* entry per such line, in the order of the lines, and the entry of a line has
\* the oldPath and newPath written on that line.
C12_OneFilePerHeaderWithItsPaths ==
    (Returned /\ allWellFormed(lines)) =>
        /\ Len(result.files) = Cardinality(diffGitLines(lines))
        /\ \A k \in 1..Len(result.files) :
              LET h == nthOf(diffGitLines(lines), k)
              IN  /\ result.files[k].oldPath = matchDiffGit(lines[h]).g1
                  /\ result.files[k].newPath = matchDiffGit(lines[h]).g2

\* the section of the header at line h holds a line of the given kind
sectionHasNewFileMode(ls, h) ==
    \E j \in h..sectionEnd(ls, h, diffGitLines(ls)) : IsNewFileMode(ls[j])
sectionHasDeletedFileMode(ls, h) ==
    \E j \in h..sectionEnd(ls, h, diffGitLines(ls)) : IsDeletedFileMode(ls[j])

\* C12, amended: one entry per line, in the order of the lines; the entry has
\* the paths written on its line, except that oldPath is '/dev/null' when its
\* section holds a 'new file mode' line and newPath is '/dev/null' when its
\* section holds a 'deleted file mode' line.
C12_OneFilePerHeaderInOrder ==
    (Returned /\ allWellFormed(lines)) =>
        /\ Len(result.files) = Cardinality(diffGitLines(lines))
        /\ \A k \in 1..Len(result.files) :
              LET h == nthOf(diffGitLines(lines), k)
              IN  /\ result.files[k].oldPath =
                        IF sectionHasNewFileMode(lines, h) THEN "/dev/null"
                        ELSE matchDiffGit(lines[h]).g1
                  /\ result.files[k].newPath =
                        IF sectionHasDeletedFileMode(lines, h) THEN "/dev/null"
                        ELSE matchDiffGit(lines[h]).g2

C12_Witness ==
    /\ Returned
    /\ lines = <<"diff --git a/y b/z", "index 123..456 100644", "diff --git a/x b/x",
                 "new file mode 100644">>
    /\ Len(result.files) = 2
    /\ result.files[1].oldPath = "y" /\ result.files[1].newPath = "z"
    /\ result.files[2].oldPath = "/dev/null" /\ result.files[2].newPath = "x"

-----------------------------------------------------------------------------
(* C13: lines scanned while no file is current                              *)

NoStats == [filesChanged |-> 0, additions |-> 0, deletions |-> 0]

\* C13: a line that starts no file, scanned while no file is current, changes
\* nothing; a text without a well-formed 'diff --git ' line yields files = []
\* and stats all zero; and the files of a text are those of the text from its
\* first well-formed 'diff --git ' line on: the lines before it contribute to
\* no file's hunks or counters.
C13_NoFileNoEffect ==
    [][/\ (pc = "scan" /\ i < Len(lines) /\ currentFile = NULL /\ ~StartsFile(lines[i + 1]))
          => /\ pc' = "scan"
             /\ UNCHANGED <<files, currentFile, currentHunk, fileObjs, hunkObjs>>
             /\ files = <<>> /\ currentHunk = NULL /\ fileObjs = <<>> /\ hunkObjs = <<>>
       /\ (pc = "scan" /\ pc' = "done" /\ fileStarts(lines) = {})
          => result'.files = <<>> /\ result'.stats = NoStats
       /\ (pc = "scan" /\ pc' = "done" /\ fileStarts(lines) # {})
          => result'.files =
                parseFiles(SubSeq(lines, Min(fileStarts(lines)), Len(lines)))]_vars

C13_Witness ==
    /\ Returned
    /\ lines = <<"@@ -1,2 +1,2 @@ f()", "+n", "new file mode 100644", "diff --git a/x b/x">>
    /\ Len(result.files) = 1
    /\ result.files[1].hunks = <<>>
    /\ result.files[1].additions = 0
    /\ result.files[1].type = "modified"

-----------------------------------------------------------------------------
(* C14: the fields of a hunk                                                *)

\* the number a digit string of the headers denotes
numberOf(digits) ==
    CASE digits = "0" -> 0 [] digits = "1" -> 1 [] digits = "3" -> 3
      [] digits = "4" -> 4 [] digits = "12" -> 12

\* a heading without the white space around it
trimmedHeading(h) == CASE h = "" -> "" [] h = " f() " -> "f()"

\* the hunk the header written from a, b, c, d and h must start
hunkOf(a, b, c, d, h) ==
    [oldStart |-> numberOf(a),
     oldLines |-> IF b = "" THEN 1 ELSE numberOf(b),
     newStart |-> numberOf(c),
     newLines |-> IF d = "" THEN 1 ELSE numberOf(d),
     heading  |-> trimmedHeading(h),
     lines    |-> <<>>]

\* C14: every header '@@ -a[,b] +c[,d] @@ heading' scanned while a file is
\* current starts a new hunk with oldStart = a, newStart = c, oldLines = b if
\* present else 1, newLines = d if present else 1 (a count of 0 stays 0), and
\* heading the trimmed text after the second '@@'.
C14_HunkFieldsFromHeader ==
    [][\A a, c \in Starts \cup {"4"}, b, d \in Counts, h \in Headings :
          (pc = "scan" /\ i < Len(lines) /\ currentFile # NULL
           /\ lines[i + 1] = hunkHeaderLine(a, b, c, d, h))
          => /\ pc' = "scan"
             /\ currentHunk' = Len(hunkObjs) + 1
             /\ Len(hunkObjs') = Len(hunkObjs) + 1
             /\ hunkObjs'[currentHunk'] = hunkOf(a, b, c, d, h)]_vars

C14_Witness ==
    /\ pc = "scan"
    /\ i = 2
    /\ lines[1] = "diff --git a/x b/x"
    /\ lines[2] = "@@ -12,0 +4 @@ f() "
    /\ hunkObjs[currentHunk] =
          [oldStart |-> 12, oldLines |-> 0, newStart |-> 4, newLines |-> 1,
           heading |-> "f()", lines |-> <<>>]

-----------------------------------------------------------------------------
(* C15: the mailbox header block                                            *)

\* a date text without the white space around it
trimmedDate(d) ==
    CASE d = "Mon Jan 1" -> "Mon Jan 1"
      [] d = " Mon, 1 Jan 2024 10:00:00 +0000 " -> "Mon, 1 Jan 2024 10:00:00 +0000"

\* 40 characters, each a lowercase hexadecimal digit
IsFullHash(token) ==
    /\ Len(token) = 40
    /\ \A k \in 1..40 : SubSeq(token, k, k) \in
          {"0", "1", "2", "3", "4", "5", "6", "7", "8", "9", "a", "b", "c", "d", "e", "f"}

\* C15: a patch that starts with 'From <token>', 'From: Name <email>',
\* 'Date: ...', 'Subject: text' and a blank line yields author = Name,
\* authorEmail = email, date = the trimmed remainder of the Date line, message
\* = text, and commitHash = the token when the token is 40 lowercase
\* hexadecimal characters; any other token leaves commitHash unset.
C15_MailboxHeaderFields ==
    \A token \in HashTokens, after \in AfterToken, name \in AuthorNames,
       email \in AuthorEmails, date \in DateTexts, subject \in SubjectTexts :
        (/\ Returned
         /\ Len(lines) >= 5
         /\ SubSeq(lines, 1, 5) = mailboxHeader(token, after, name, email, date, subject))
        => /\ result.metadata.commitHash = IF IsFullHash(token) THEN Str(token) ELSE Null
           /\ result.metadata.author = Str(name)
           /\ result.metadata.authorEmail = Str(email)
           /\ result.metadata.date = Str(trimmedDate(date))
           /\ result.metadata.message = subject

-----------------------------------------------------------------------------
(* C16: an author without an address                                        *)

\* the indexes, within the scanned window, of the lines that start with p
windowLines(ls, p) ==
    {k \in 1..Len(ls) : k <= MetadataWindow /\ prefix(ls[k], Len(p)) = p}

\* the line holds no '<'
noAngleBracket(line) == \A k \in 1..Len(line) : SubSeq(line, k, k) # "<"

\* C16: when the last 'From: ' line of the scanned window, the one that sets
\* metadata.author, carries no angle-bracket address, author is the trimmed
\* remainder of that line and authorEmail is null, however many 'From: '
\* lines come before it.
C16_NoEmailLeavesEmailUnset ==
    Returned =>
        LET froms == windowLines(lines, "From: ")
        IN  (froms # {} /\ noAngleBracket(lines[Max(froms)]))
            => /\ result.metadata.author =
                     Str(trim(SubSeq(lines[Max(froms)], 7, Len(lines[Max(froms)]))))
               /\ result.metadata.authorEmail = Null

-----------------------------------------------------------------------------
(* C17: the message                                                         *)

\* a line that ends the accumulation: blank, or starting with '---'
endsMessage(line) == trim(line) = "" \/ prefix(line, 3) = "---"

\* what a line gives to the message: the text after 'Subject: ', or the line
messageText(line) ==
    IF prefix(line, 9) = "Subject: " THEN trim(SubSeq(line, 10, Len(line))) ELSE trim(line)

\* the message of the first 'Subject: ' line at index s: its text and the
\* lines that follow it, up to the first line that ends the accumulation or
\* the end of the scanned window
messageFrom(ls, s) ==
    LET last == IF Len(ls) < MetadataWindow THEN Len(ls) ELSE MetadataWindow
        ends == {j \in (s + 1)..last : endsMessage(ls[j])}
        stop == IF ends = {} THEN last + 1 ELSE Min(ends)
        parts == [k \in 1..(stop - s) |-> messageText(ls[s + k - 1])]
    IN  trim(join(parts, " "))

\* C17: message is the trimmed, space-joined text of the 'Subject: ' line and
\* of the lines that follow it up to the first blank line or line starting
\* with '---'; no line after that one contributes, a later 'Subject: ' line
\* included.  Without a 'Subject: ' line the message is empty.
C17_MessageStopsAtFirstEnd ==
    Returned =>
        LET subjects == windowLines(lines, "Subject: ")
        IN  result.metadata.message =
                IF subjects = {} THEN "" ELSE messageFrom(lines, Min(subjects))

-----------------------------------------------------------------------------
(* C18: the refs                                                            *)

\* a line that is a parenthesized list of names: white space, '(', at least
\* one character, ')' at the end of the line
IsRefList(line) ==
    \E o \in 1..Len(line) :
        /\ \A k \in 1..(o - 1) : SubSeq(line, k, k) \in {" ", "\t"}
        /\ SubSeq(line, o, o) = "("
        /\ Len(line) >= o + 2
        /\ SubSeq(line, Len(line), Len(line)) = ")"
        /\ SubSeq(line, o + 1, o + 1) # ")"

\* the names the lists of the vocabulary hold
refNames(line) ==
    CASE line = "(HEAD -> main, origin/main)" -> <<"HEAD -> main", "origin/main">>
      [] line = "  (tag: v1)" -> <<"tag: v1">>
      [] line = "( a ,b )" -> <<"a", "b">>

\* C18: refs holds the comma-split, trimmed names of the last line of the
\* scanned window that is a parenthesized list, and of that line only; with
\* no such line refs is the empty sequence.
C18_RefsOfLastList ==
    Returned =>
        LET lists == {k \in 1..Len(lines) : k <= MetadataWindow /\ IsRefList(lines[k])}
        IN  result.metadata.refs = IF lists = {} THEN <<>> ELSE refNames(lines[Max(lists)])

C18_Witness ==
    /\ Returned
    /\ lines = <<"(HEAD -> main, origin/main)", "( a ,b )", "()", "x (y)">>
    /\ result.metadata.refs = <<"a", "b">>

-----------------------------------------------------------------------------
(* C19: the window of the metadata scan                                     *)

\* the first 50 lines of a text, as a text: the text up to its 50th line
\* feed, or all of it when it has no more than 50 lines
firstLines(text) ==
    LET feeds == {k \in 1..Len(text) : SubSeq(text, k, k) = "\n"}
    IN  IF Cardinality(feeds) < 50 THEN text
        ELSE SubSeq(text, 1, nthOf(feeds, 50) - 1)

\* C19: any two texts parsed so far that agree on their first 50 lines gave
\* equal metadata, and the files of a text come from all its lines: parse
\* returns one file per file header, those after line 50 included.
C19_MetadataFromFirstLines ==
    /\ \A a, b \in DOMAIN returned :
          firstLines(a.text) = firstLines(b.text)
          => returned[a].metadata = returned[b].metadata
    /\ Returned => Len(result.files) = Cardinality(fileStarts(lines))

C19_Witness ==
    /\ Returned
    /\ Len(called) = 2
    /\ firstLines(called[1].text) = firstLines(called[2].text)
    /\ lines[1] = "Subject: One"
    /\ lines[50] = "From: Bob"
    /\ lines[51] = "diff --git a/x b/x"
    /\ returned[called[1]].files = <<>>
    /\ Len(result.files) = 1
    /\ result.metadata.message = "One"
    /\ result.metadata = returned[called[1]].metadata

-----------------------------------------------------------------------------
(* C20: isValidPatch                                                        *)

\* the text has a line that starts with p; a line starts at the beginning of
\* the text and after every line feed or carriage return
hasLineWith(text, p) ==
    \E k \in 1..Len(text) :
        /\ k = 1 \/ SubSeq(text, k - 1, k - 1) \in {"\n", "\r"}
        /\ k + Len(p) - 1 <= Len(text)
        /\ SubSeq(text, k, k + Len(p) - 1) = p

ValidReturned == pc = "done" /\ result.kind = "boolean"

\* C20, as stated: isValidPatch returns true if and only if its argument is a
\* string with a line that starts with 'diff --git', with '---', with '+++'
\* or with '@@ '.
C20_ValidIffIndicatorLine ==
    ValidReturned =>
        result.value =
            (/\ patchText.kind = "string"
             /\ \E p \in {"diff --git", "---", "+++", "@@ "} : hasLineWith(patchText.text, p))

\* C20, amended: isValidPatch returns true if and only if its argument is a
\* string with a line that starts with 'diff --git', with '--- ', with '+++ '
\* or with '@@ ', each of the last three with its space; it is false for
\* 'random text' and true for '@@ -1 +1 @@'.
C20_ValidIffIndicatorAndSpace ==
    ValidReturned =>
        /\ result.value =
              (/\ patchText.kind = "string"
               /\ \E p \in {"diff --git", "--- ", "+++ ", "@@ "} : hasLineWith(patchText.text, p))
        /\ patchText = Str("random text") => result.value = FALSE
        /\ patchText = Str("@@ -1 +1 @@") => result.value = TRUE

C20_Witness ==
    /\ ValidReturned
    /\ patchText = Str("---\n+++ b/x")
    /\ result.value = TRUE

-----------------------------------------------------------------------------
(* C21: detectLanguage                                                      *)

\* the text of s after its last c, the whole of s when it has no c
afterLast(s, c) ==
    IF \E k \in 1..Len(s) : SubSeq(s, k, k) = c
    THEN SubSeq(s, 1 + Max({k \in 1..Len(s) : SubSeq(s, k, k) = c}), Len(s))
    ELSE s

hasChar(s, c) == \E k \in 1..Len(s) : SubSeq(s, k, k) = c

SpecialFiles == [name \in {"dockerfile", "makefile", ".gitignore"} |->
                    IF name = "dockerfile" THEN "docker"
                    ELSE IF name = "makefile" THEN "makefile" ELSE "git"]

\* the identifier the claim gives a path
languageOf(path) ==
    IF toLowerCase(afterLast(path, "/")) \in DOMAIN SpecialFiles
    THEN SpecialFiles[toLowerCase(afterLast(path, "/"))]
    ELSE IF hasChar(path, ".") /\ toLowerCase(afterLast(path, ".")) \in DOMAIN languageMap
    THEN languageMap[toLowerCase(afterLast(path, "."))]
    ELSE "plaintext"

\* C21: detectLanguage returns, for every string, the special identifier of a
\* path whose last segment is Dockerfile, Makefile or .gitignore in any case,
\* else the table entry of the text after the last dot, else 'plaintext'.
C21_LanguageOfPath ==
    pc = "done" => result = Str(languageOf(patchText.text))

-----------------------------------------------------------------------------
(* C22: groupFilesByDirectory                                               *)

\* the path the claim groups a file by
effectivePath(file) == IF file.newPath = "/dev/null" THEN file.oldPath ELSE file.newPath

\* the directory part of a path: the text before its last '/', and the root
\* key for a path without one
directoryPart(path) ==
    IF hasChar(path, "/")
    THEN SubSeq(path, 1, Max({k \in 1..Len(path) : SubSeq(path, k, k) = "/"}) - 1)
    ELSE "/"

RECURSIVE filesIn(_, _)
\* the files of fs whose directory part is dir, in their order
filesIn(fs, dir) ==
    IF fs = <<>> THEN <<>>
    ELSE (IF directoryPart(effectivePath(Head(fs))) = dir THEN <<Head(fs)>> ELSE <<>>)
         \o filesIn(Tail(fs), dir)

\* C22: groupFilesByDirectory returns one group for each directory part of
\* an effective path, the root key '/' for paths without '/', and each group
\* holds exactly the input files of that directory in their input order.
C22_GroupsPartitionFiles ==
    pc \in {"done", "threw"} =>
        /\ pc = "done"
        /\ result.groups =
              [dir \in {directoryPart(effectivePath(patchText[k])) : k \in 1..Len(patchText)} |->
                  filesIn(patchText, dir)]

-----------------------------------------------------------------------------
(* C23, C24, C30: formatRelativeTime                                        *)

\* the call was on a non-empty string
OnDateString == pc = "done" /\ patchText.kind = "string" /\ patchText.text # ""

\* C23: for every non-empty date string that cannot be parsed into a valid
\* point in time, formatRelativeTime returns the string unchanged.
C23_UnparseableReturnsInput ==
    (OnDateString /\ DateParse(patchText.text) = NaN) => result = patchText

\* the whole seconds from the date of the call to the clock
elapsedSeconds ==
    clock.sec - DateParse(patchText.text).sec
        - (IF clock.ms < DateParse(patchText.text).ms THEN 1 ELSE 0)

labelOf(n, unit) == numberToString(Num(n)) \o " " \o unit \o (IF n = 1 THEN "" ELSE "s") \o " ago"

\* the label of the first threshold that s seconds match
thresholdLabel(s) ==
    IF s < 60 THEN "just now"
    ELSE IF s \div 60 < 60 THEN labelOf(s \div 60, "minute")
    ELSE IF s \div 3600 < 24 THEN labelOf(s \div 3600, "hour")
    ELSE IF s \div 86400 < 7 THEN labelOf(s \div 86400, "day")
    ELSE IF (s \div 86400) \div 7 < 4 THEN labelOf((s \div 86400) \div 7, "week")
    ELSE IF (s \div 86400) \div 30 < 12 THEN labelOf((s \div 86400) \div 30, "month")
    ELSE labelOf((s \div 86400) \div 365, "year")

\* C24: for a valid date, formatRelativeTime returns the label of the first
\* threshold its elapsed whole seconds match, by integer division, with a
\* plural 's' exactly when the count is not 1.
C24_FirstMatchingThreshold ==
    (OnDateString /\ DateParse(patchText.text) # NaN) =>
        result = Str(thresholdLabel(elapsedSeconds))

\* thirty days have passed: four weeks are not under 4, and the month is singular
C24_Witness ==
    /\ OnDateString
    /\ DateParse(patchText.text) # NaN
    /\ elapsedSeconds = 30 * 86400
    /\ result = Str("1 month ago")

\* C30: for every valid date in the past, a label other than 'just now'
\* has a count of at least 1.
C30_CountAtLeastOne ==
    (OnDateString /\ DateParse(patchText.text) # NaN /\ elapsedSeconds >= 0
        /\ result # Str("just now")) =>
        parseInt(SubSeq(result.text, 1, runEnd(result.text, 1, Digits) - 1)) >= 1

-----------------------------------------------------------------------------
(* C29: the declared ranges of a hunk                                       *)

\* the number of entries of type t among the lines of one hunk
linesOfType(hunk, t) == Cardinality({k \in 1..Len(hunk.lines) : hunk.lines[k].type = t})

\* C29: in every returned patch, each hunk records at most oldLines context
\* and deleted lines and at most newLines context and added lines, so a line
\* after the declared range, such as the signature '-- ', is not a change.
C29_LinesWithinDeclaredRanges ==
    Returned =>
        \A f \in 1..Len(result.files) : \A h \in 1..Len(result.files[f].hunks) :
            /\ linesOfType(result.files[f].hunks[h], "context")
                   + linesOfType(result.files[f].hunks[h], "del")
                   <= result.files[f].hunks[h].oldLines
            /\ linesOfType(result.files[f].hunks[h], "context")
                   + linesOfType(result.files[f].hunks[h], "add")
                   <= result.files[f].hunks[h].newLines

-----------------------------------------------------------------------------
(* C25, C26: the saved-patch list                                           *)

\* a step of savePatch that returned an entry
savedStep == result'.kind = "entry" /\ nextId' = nextId + 1

\* C25: the stored list never holds more than 50 entries, and each successful
\* savePatch places the new entry at index 0 and drops the entries beyond
\* index 49.
C25_ListLimitedToFifty ==
    [][/\ Len(storage') <= 50
       /\ savedStep =>
            /\ storage'[1] = result'.entry
            /\ Len(storage') = Min({50, Len(storage) + 1})
            /\ \A k \in 2..Len(storage') : storage'[k] = storage[k - 1]]_vars

\* a step of importPatches on the document json
importedStep(json) == patchText' = json /\ result'.kind \in {"number", "error"}

\* the indexes of the entries of items that no entry of patches and no
\* earlier entry of items shares its id with
freshIndexes(patches, items) ==
    {k \in 1..Len(items) :
        /\ \A j \in 1..Len(patches) : patches[j].id # items[k].id
        /\ \A j \in 1..(k - 1) : items[j].id # items[k].id}

\* C26: importPatches on an array keeps the stored entries unchanged and in
\* place, adds after them exactly the entries whose id no stored entry and
\* no earlier entry of the import has, returns the number added, and adds
\* nothing when the same document is imported again; a document that is not
\* an array raises an error and leaves storage unchanged.
C26_ImportMergesById ==
    [][\A json \in ImportVocabulary : importedStep(json) =>
          IF json.kind = "array"
          THEN /\ result' = Num(Cardinality(freshIndexes(storage, json.items)))
               /\ Len(storage') = Len(storage) + result'.num
               /\ \A k \in 1..Len(storage) : storage'[k] = storage[k]
               /\ \A n \in 1..result'.num :
                      storage'[Len(storage) + n] =
                          json.items[nthOf(freshIndexes(storage, json.items), n)]
               /\ importPatches(storage', json).value = Num(0)
               /\ importPatches(storage', json).storage = storage'
          ELSE /\ result'.kind = "error"
               /\ storage' = storage]_vars

\* an import of four entries of which one is new: one id is stored twice
\* over and one is repeated in the import
C26_Witness ==
    /\ patchText.kind = "array"
    /\ Len(patchText.items) = 4
    /\ result = Num(1)
    /\ Len(storage) > 2
    /\ \E k \in 1..Len(storage) : storage[k].id = "b1" /\ storage[k].name = ""

-----------------------------------------------------------------------------
(* C27, C28: the saved state of the displayed patch                         *)

\* C27: once the displayed patch is saved, no step that keeps it displayed
\* adds a storage entry.
C27_SavedPatchNotSavedAgain ==
    [][(currentSavedPatchId # Null /\ currentPatch # Null /\ currentPatch' = currentPatch)
          => Len(storage') <= Len(storage)]_vars

\* C28: in every state, a non-null currentSavedPatchId comes with a non-null
\* currentPatch and a storage entry of that id whose data is
\* currentPatch.raw.
C28_SavedIdNamesDisplayedPatch ==
    currentSavedPatchId # Null =>
        /\ currentPatch # Null
        /\ \E k \in 1..Len(storage) :
               /\ storage[k].id = currentSavedPatchId.text
               /\ storage[k].data = currentPatch.raw

====
